---- MODULE Spec2Model ----
(***************************************************************************)
(* Model of the personal finance tracker: the ledger store (accounts,      *)
(* transactions, transaction_tags, budgets) and the views that compute     *)
(* from it: Reports.fetchData (monthly totals, balance replay, daily       *)
(* snapshots, budgets), Dashboard.fetchAccounts, Accounts.fetchAccounts    *)
(* and Transactions.fetchData.                                             *)
(*                                                                         *)
(* Amounts are integers (currency units). Dates are day numbers; the       *)
(* year-month prefix of a date string (date.slice(0, 7)) is MonthOf.       *)
(* created_at is a timestamp in ticks finer than a millisecond, as the     *)
(* store keeps it; new Date(created_at).getTime() keeps milliseconds only. *)
(***************************************************************************)
EXTENDS Integers, Sequences, FiniteSets, TLC

\* ---------------------------------------------------------------- bounds
NumDates == 3
DaysPerMonth == 2
MaxCreatedAt == 3
TicksPerMs == 2
MaxRuns == 3
MaxRows == 2
MaxFailures == 1
MaxBalance == 500

\* ------------------------------------------------------------- universes
NULL == "null"
NoAccount == ""
NoToast == [title |-> "none", description |-> {}]
NoDate == 0

AccountIds == {"a1", "a2"}
TxIds == {"t1", "t2", "t3"}
CategoryIds == {"c1", "c2"}
SubcategoryIds == {"s1"}
TagIds == {"g1", "g2"}
BudgetIds == {"b1", "b2", "b3", "b4"}

Dates == 1..NumDates
ReplayDates == 1..(NumDates - 1)
CreatedAts == 0..MaxCreatedAt
Months == {(d - 1) \div DaysPerMonth : d \in Dates}

AccountName == [a \in AccountIds |-> IF a = "a1" THEN "Conta A" ELSE "Conta B"]
CategoryName == [c \in CategoryIds |-> IF c = "c1" THEN "Salary" ELSE "Groceries"]
SubcategoryCategory == [s \in SubcategoryIds |-> "c1"]

AmountOfId == [i \in TxIds |-> CASE i = "t1" -> 100 [] i = "t2" -> 30 [] OTHER -> 200]

VARIABLES
  accounts,              \* store: account id -> opening balance (accounts.balance)
  transactions,          \* store: set of transaction rows
  transaction_tags,      \* store: set of <<transaction_id, tag_id>>
  budgetsTable,          \* store: set of budget rows
  today,                 \* the evaluation date of Dashboard and Accounts
  selectedMonth, selectedAccounts, selectedCategories,
  selectedSubcategories, selectedTags, startDate, endDate,   \* Reports filters
  run,                   \* Reports.fetchData: the locals of the last run
  monthlyData, dailyBalances, budgets,                       \* Reports state
  dashboard,             \* Dashboard state
  accountsPage,          \* Accounts state
  txPage,                \* Transactions state
  toast,                 \* the last toast shown: its title and the error messages
                         \* of its description
  forms                  \* the dialogs of the pages: open, the row being edited
                         \* and formData

\* ------------------------------------------------------------ the dialogs
\* The text of an empty input or of a select without a value
Empty == ""

\* useState of formData on the Transactions page, and resetForm; date is
\* new Date().toISOString().split('T')[0] of the day d
TxFormData(d) ==
  [amount |-> Empty, type |-> "despesa", date |-> d, account_id |-> Empty,
   category_id |-> Empty, subcategory_id |-> Empty, tag_ids |-> <<>>]

\* useState of formData of the budget dialog, and its reset; month is
\* new Date().toISOString().slice(0, 7) of the day d
BudgetFormData(d) ==
  [category_id |-> Empty, amount |-> Empty, month |-> (d - 1) \div DaysPerMonth]

\* useState of formData of the account dialog, and its reset
AccountFormData == [balance |-> "0"]

\* The locals of a run of handleFileUpload that has counted nothing
NoCounts == [rows |-> 0, successCount |-> 0, errorCount |-> 0, errors |-> <<>>]

\* TransactionImport: open and importing; whether the last run of
\* handleFileUpload has called onImportComplete, and what it has counted
ImportData(open) ==
  [open |-> open, importing |-> FALSE, onImportComplete |-> FALSE, counted |-> NoCounts]

\* Number(text) of the text of a number input: 0 for the empty text
NumberRange == (0 - 1000)..1000
NumberTexts == {<<ToString(n), n>> : n \in NumberRange}
NumberOfText ==
  [text \in {p[1] : p \in NumberTexts} |-> (CHOOSE p \in NumberTexts : p[1] = text)[2]]
Number(text) == IF text = Empty THEN 0 ELSE NumberOfText[text]

storeVars == <<accounts, transactions, transaction_tags, budgetsTable, today>>
filterVars == <<selectedMonth, selectedAccounts, selectedCategories,
                selectedSubcategories, selectedTags, startDate, endDate>>
reportVars == <<run, monthlyData, dailyBalances, budgets>>
vars == <<storeVars, filterVars, reportVars, dashboard, accountsPage, txPage, toast, forms>>

\* ---------------------------------------------------------------- helpers
Abs(x) == IF x < 0 THEN 0 - x ELSE x
Min(a, b) == IF a <= b THEN a ELSE b

Range(s) == {s[i] : i \in 1..Len(s)}

\* All arrays a query without ORDER BY can return for a set of rows.
Orders(S) == {s \in [1..Cardinality(S) -> S] : Range(s) = S}

RECURSIVE SumOver(_, _)
SumOver(S, f) ==
  IF S = {} THEN 0
  ELSE LET x == CHOOSE y \in S : TRUE IN f[x] + SumOver(S \ {x}, f)

\* String.prototype.slice(0, 7) on an ISO date: the year-month of the date.
MonthOf(d) == (d - 1) \div DaysPerMonth
\* selectedMonth + "-01"
MonthStart(m) == m * DaysPerMonth + 1

\* new Date(created_at).getTime(): the fraction below a millisecond is dropped.
getTime(created_at) == created_at \div TicksPerMs

\* Map.get(k) || 0
MapGetOr0(m, k) == IF k \in DOMAIN m THEN m[k] ELSE 0
\* Map.set(k, v)
MapSet(m, k, v) == [x \in (DOMAIN m) \cup {k} |-> IF x = k THEN v ELSE m[x]]

Row(id, type, amount, date, created_at, account_id, dest, pair, cat, sub) ==
  [id |-> id, type |-> type, amount |-> amount, date |-> date,
   created_at |-> created_at, account_id |-> account_id,
   destination_account_id |-> dest, transfer_pair_id |-> pair,
   category_id |-> cat, subcategory_id |-> sub]

\* A table without the constraint
CheckTransferDestinationOff(t) == TRUE

\* check_transfer_destination
CheckTransferDestination(t) ==
  \/ t.type = "transferencia" /\ t.destination_account_id # NULL
  \/ t.type # "transferencia" /\ t.destination_account_id = NULL

\* accountsData of a fetch: the rows of the accounts table.
AccountsData ==
  {[id |-> a, name |-> AccountName[a], balance |-> accounts[a]] : a \in DOMAIN accounts}

\* accountsData?.find(a => a.id === id) is defined
HasAccount(accountsData, id) == \E a \in accountsData : a.id = id
FindAccount(accountsData, id) == CHOOSE a \in accountsData : a.id = id

\* ------------------------------------------------ Reports: balance replay
\* Array.prototype.sort((a, b) => a.date.localeCompare(b.date)) is stable:
\* rows of one date keep the order in which the store returned them.
RECURSIVE InsertByDate(_, _)
InsertByDate(s, t) ==
  IF s = <<>> THEN <<t>>
  ELSE IF s[Len(s)].date <= t.date THEN Append(s, t)
  ELSE Append(InsertByDate(SubSeq(s, 1, Len(s) - 1), t), s[Len(s)])

RECURSIVE SortByDate(_)
SortByDate(s) ==
  IF s = <<>> THEN <<>>
  ELSE InsertByDate(SortByDate(SubSeq(s, 1, Len(s) - 1)), s[Len(s)])

\* transactionMap.get(id)
HasTransaction(all, id) == \E i \in 1..Len(all) : all[i].id = id
TransactionMapGet(all, id) == all[CHOOSE i \in 1..Len(all) : all[i].id = id]

\* A list that takes a second entry for a key it already holds
DailySetAppending(daily, date, accountId, accountName, balance) ==
  Append(daily, [date |-> date, accountId |-> accountId,
                 accountName |-> accountName, balance |-> balance])

\* dailyAccountBalances.set(`${date}|${accountId}`, {...}): a Map keeps the
\* position of the first insertion of a key and overwrites its value.
DailySet(daily, date, accountId, accountName, balance) ==
  LET e == [date |-> date, accountId |-> accountId,
            accountName |-> accountName, balance |-> balance]
  IN IF \E i \in 1..Len(daily) : daily[i].date = date /\ daily[i].accountId = accountId
     THEN [i \in 1..Len(daily) |->
             IF daily[i].date = date /\ daily[i].accountId = accountId
             THEN e ELSE daily[i]]
     ELSE Append(daily, e)

\* The snapshot update guarded by accountsData?.find(...)
Snapshot(accountsData, daily, date, accountId, balance) ==
  IF HasAccount(accountsData, accountId)
  THEN DailySet(daily, date, accountId, FindAccount(accountsData, accountId).name, balance)
  ELSE daily

\* A pair lookup that also skips the row created in the millisecond of its pair
IsNotEarlierOfPair(all, t) ==
  /\ t.transfer_pair_id # NULL
  /\ HasTransaction(all, t.transfer_pair_id)
  /\ getTime(t.created_at) >= getTime(TransactionMapGet(all, t.transfer_pair_id).created_at)

\* The pair lookup of the transfer branch: TRUE when this row is the
\* later-created row of its pair and is skipped.
IsLaterOfPair(all, t) ==
  /\ t.transfer_pair_id # NULL
  /\ HasTransaction(all, t.transfer_pair_id)
  /\ getTime(t.created_at) > getTime(TransactionMapGet(all, t.transfer_pair_id).created_at)

\* A set of processed transfers that outlives the run that filled it
ProcessedTransfersKept == run.processedTransfers

\* processedTransfers at the start of a run
InitialProcessedTransfers == {}

ReplayStart(accountsData) ==
  [accountBalances |-> [a \in {x.id : x \in accountsData} |->
                          (CHOOSE x \in accountsData : x.id = a).balance],
   dailyAccountBalances |-> <<>>,
   processedTransfers |-> InitialProcessedTransfers,
   applied |-> {}]

\* One iteration of sortedAllTransactions.forEach
ReplayStep(accountsData, all, st, t) ==
  IF t.type = "transferencia" THEN
    IF t.id \in st.processedTransfers THEN st
    ELSE IF IsLaterOfPair(all, t)
    THEN [st EXCEPT !.processedTransfers = @ \cup {t.id}]
    ELSE
      LET originBalance == MapGetOr0(st.accountBalances, t.account_id)
          newOriginBalance == originBalance - t.amount
          bal1 == MapSet(st.accountBalances, t.account_id, newOriginBalance)
          daily1 == Snapshot(accountsData, st.dailyAccountBalances, t.date,
                             t.account_id, newOriginBalance)
          hasDest == t.destination_account_id # NULL
          destBalance == MapGetOr0(bal1, t.destination_account_id)
          newDestBalance == destBalance + t.amount
          bal2 == IF hasDest
                  THEN MapSet(bal1, t.destination_account_id, newDestBalance)
                  ELSE bal1
          daily2 == IF hasDest
                    THEN Snapshot(accountsData, daily1, t.date,
                                  t.destination_account_id, newDestBalance)
                    ELSE daily1
      IN [accountBalances |-> bal2,
          dailyAccountBalances |-> daily2,
          processedTransfers |->
            st.processedTransfers \cup {t.id} \cup
              (IF t.transfer_pair_id # NULL THEN {t.transfer_pair_id} ELSE {}),
          applied |-> st.applied \cup {t.id}]
  ELSE
    LET currentBalance == MapGetOr0(st.accountBalances, t.account_id)
        change == IF t.type = "receita" THEN t.amount ELSE 0 - t.amount
        newBalance == currentBalance + change
    IN [st EXCEPT
          !.accountBalances = MapSet(@, t.account_id, newBalance),
          !.dailyAccountBalances =
             Snapshot(accountsData, @, t.date, t.account_id, newBalance),
          !.applied = @ \cup {t.id}]

RECURSIVE ReplayFold(_, _, _, _)
ReplayFold(accountsData, all, sorted, n) ==
  IF n = 0 THEN ReplayStart(accountsData)
  ELSE ReplayStep(accountsData, all, ReplayFold(accountsData, all, sorted, n - 1), sorted[n])

\* The whole replay over the array the store returned
Replay(accountsData, allTransactions) ==
  LET sortedAllTransactions == SortByDate(allTransactions)
  IN ReplayFold(accountsData, sortedAllTransactions, sortedAllTransactions,
                Len(sortedAllTransactions))

\* The array after [...(allTransactions || [])].sort(...): the sort works on a
\* copy, the fetched array keeps the order of the store.
AllTransactionsAfterSort(allTransactions) == allTransactions

\* ---------------------------------------- Reports: filtered transactions
\* A variant whose category filter lets rows without a category through
MatchesTransQueryNullCategory(f, t) ==
  /\ f.selectedAccounts # {} =>
       \/ t.account_id \in f.selectedAccounts
       \/ t.destination_account_id \in f.selectedAccounts
  /\ f.selectedCategories # {} =>
       (t.category_id = NULL \/ t.category_id \in f.selectedCategories)
  /\ f.selectedSubcategories # {} => t.subcategory_id \in f.selectedSubcategories
  /\ f.startDate # NoDate => t.date >= f.startDate
  /\ f.endDate # NoDate => t.date <= f.endDate

\* transQuery: the optional filters of the second query
MatchesTransQuery(f, t) ==
  /\ f.selectedAccounts # {} =>
       \/ t.account_id \in f.selectedAccounts
       \/ t.destination_account_id \in f.selectedAccounts
  /\ f.selectedCategories # {} => t.category_id \in f.selectedCategories
  /\ f.selectedSubcategories # {} => t.subcategory_id \in f.selectedSubcategories
  /\ f.startDate # NoDate => t.date >= f.startDate
  /\ f.endDate # NoDate => t.date <= f.endDate

\* transactionIdsWithSelectedTags
TransactionIdsWithSelectedTags(f, transactionTagsData) ==
  {tt[1] : tt \in {x \in transactionTagsData : x[2] \in f.selectedTags}}

\* A tag filter that asks for every selected tag
FilterByTagsEvery(f, trans, transactionTagsData) ==
  LET Keep(t) == \A g \in f.selectedTags : <<t.id, g>> \in transactionTagsData
  IN SelectSeq(trans, Keep)

\* filteredTransactions: the tag filter over the rows of the second query
FilterByTags(f, trans, transactionTagsData) ==
  IF f.selectedTags # {}
  THEN LET Keep(t) == t.id \in TransactionIdsWithSelectedTags(f, transactionTagsData)
       IN SelectSeq(trans, Keep)
  ELSE trans

\* ------------------------------------------------ Reports: monthly totals
\* A variant that opens the bucket of the month before it looks at the type
MonthlyStepBucketFirst(monthlyMap, t) ==
  LET month == MonthOf(t.date)
      m1 == IF month \in DOMAIN monthlyMap THEN monthlyMap
            ELSE MapSet(monthlyMap, month, [income |-> 0, expense |-> 0])
  IN IF t.type = "receita"
     THEN [m1 EXCEPT ![month].income = @ + t.amount]
     ELSE IF t.type = "despesa"
     THEN [m1 EXCEPT ![month].expense = @ + t.amount]
     ELSE m1

\* One iteration of filteredTransactions.forEach over monthlyMap
MonthlyStep(monthlyMap, t) ==
  IF t.type = "transferencia" THEN monthlyMap
  ELSE
    LET month == MonthOf(t.date)
        m1 == IF month \in DOMAIN monthlyMap THEN monthlyMap
              ELSE MapSet(monthlyMap, month, [income |-> 0, expense |-> 0])
    IN IF t.type = "receita"
       THEN [m1 EXCEPT ![month].income = @ + t.amount]
       ELSE IF t.type = "despesa"
       THEN [m1 EXCEPT ![month].expense = @ + t.amount]
       ELSE m1

RECURSIVE MonthlyFold(_, _)
MonthlyFold(filtered, n) ==
  IF n = 0 THEN <<>>
  ELSE MonthlyStep(MonthlyFold(filtered, n - 1), filtered[n])

RECURSIVE SeqDescending(_)
SeqDescending(S) ==
  IF S = {} THEN <<>>
  ELSE LET m == CHOOSE x \in S : \A y \in S : y <= x
       IN <<m>> \o SeqDescending(S \ {m})

\* monthly: the entries of monthlyMap, sorted by month descending
MonthlyOf(filtered) ==
  LET monthlyMap == MonthlyFold(filtered, Len(filtered))
      order == SeqDescending(DOMAIN monthlyMap)
  IN [i \in 1..Len(order) |->
        [month |-> order[i],
         income |-> monthlyMap[order[i]].income,
         expense |-> monthlyMap[order[i]].expense,
         balance |-> monthlyMap[order[i]].income - monthlyMap[order[i]].expense]]

\* --------------------------------------------- Reports: daily snapshots
\* sort((a, b) => b.date.localeCompare(a.date)), stable
RECURSIVE InsertByDateDesc(_, _)
InsertByDateDesc(s, e) ==
  IF s = <<>> THEN <<e>>
  ELSE IF s[Len(s)].date >= e.date THEN Append(s, e)
  ELSE Append(InsertByDateDesc(SubSeq(s, 1, Len(s) - 1), e), s[Len(s)])

RECURSIVE SortByDateDesc(_)
SortByDateDesc(s) ==
  IF s = <<>> THEN <<>>
  ELSE InsertByDateDesc(SortByDateDesc(SubSeq(s, 1, Len(s) - 1)), s[Len(s)])

\* A variant that replays the filtered rows
ReplayInputFiltered(allTransactions, transactions_) == transactions_

\* The replay always runs over allTransactions, whatever the filters are.
ReplayInput(allTransactions, transactions_) == allTransactions

\* The display filter of the snapshot list
DisplayFilter(f, item) ==
  /\ f.selectedAccounts # {} => item.accountId \in f.selectedAccounts
  /\ f.startDate # NoDate => item.date >= f.startDate
  /\ f.endDate # NoDate => item.date <= f.endDate

\* dailyBalancesList after the display filters and the sort, mapped to DailyBalance
DailyBalancesOf(f, dailyAccountBalances) ==
  LET Shown(item) == DisplayFilter(f, item)
      list == SortByDateDesc(SelectSeq(dailyAccountBalances, Shown))
  IN [i \in 1..Len(list) |->
        [date |-> list[i].date, account_name |-> list[i].accountName,
         balance |-> list[i].balance]]

\* -------------------------------------------------------- Reports: budgets
\* One iteration of the forEach over categoryBalances
CategoryStep(categoryBalances, t) ==
  IF t.category_id # NULL
  THEN LET current == MapGetOr0(categoryBalances, t.category_id)
       IN IF t.type = "receita"
          THEN MapSet(categoryBalances, t.category_id, current + t.amount)
          ELSE IF t.type = "despesa"
          THEN MapSet(categoryBalances, t.category_id, current - t.amount)
          ELSE categoryBalances
  ELSE categoryBalances

RECURSIVE CategoryFold(_, _)
CategoryFold(rows, n) ==
  IF n = 0 THEN <<>>
  ELSE CategoryStep(CategoryFold(rows, n - 1), rows[n])

\* A variant that keeps the rows of every month
InAnyMonth(f, t) == t.type # "transferencia"

\* t.date.startsWith(selectedMonth) && t.type !== "transferencia"
InSelectedMonth(f, t) == MonthOf(t.date) = f.selectedMonth /\ t.type # "transferencia"

CategoryBalancesOf(f, filtered) ==
  LET OfMonth(t) == InSelectedMonth(f, t)
      rows == SelectSeq(filtered, OfMonth)
  IN CategoryFold(rows, Len(rows))

\* .eq("month", monthStart) over the budgets table as given
BudgetsDataOf(table, f) == {b \in table : b.month = MonthStart(f.selectedMonth)}

\* budgetsData: the budgets of the selected month
BudgetsData(f) == BudgetsDataOf(budgetsTable, f)

\* budgetsData?.map(...) || [] with categoriesData the ids the categories
\* query returned
BudgetsWithBalanceOf(budgetsData, categoriesData, categoryBalances) ==
  {[id |-> b.id, category_id |-> b.category_id,
    category_name |-> IF b.category_id \in categoriesData
                      THEN CategoryName[b.category_id] ELSE "N/A",
    amount |-> b.amount,
    balance |-> MapGetOr0(categoryBalances, b.category_id),
    month |-> b.month] : b \in budgetsData}

BudgetsWithBalance(budgetsData, categoryBalances) ==
  BudgetsWithBalanceOf(budgetsData, CategoryIds, categoryBalances)

\* ---------------------------------------------------- Reports: budget card
\* A guard that divides by 1 where the target is 0
PercentageOverUnit(balance, target) ==
  [num |-> balance * 100, den |-> IF target # 0 THEN Abs(target) ELSE 1]

\* (balance / Math.abs(target)) * 100, kept as the exact fraction num / den;
\* 0 when the target is 0
Percentage(balance, target) ==
  IF target # 0 THEN [num |-> balance * 100, den |-> Abs(target)]
  ELSE [num |-> 0, den |-> 1]

\* percentage.toFixed(1), in tenths: the nearest tenth of the magnitude, a half
\* rounded up, under the sign of the number
ToFixed1(p) ==
  LET n == (20 * Abs(p.num) + p.den) \div (2 * p.den)
  IN IF p.num < 0 THEN 0 - n ELSE n

\* A variant without the cap
WidthUnclamped(p) == [num |-> Abs(p.num), den |-> p.den]

\* Math.min(Math.abs(percentage), 100), as a fraction
Width(p) ==
  IF Abs(p.num) <= 100 * p.den THEN [num |-> Abs(p.num), den |-> p.den]
  ELSE [num |-> 100, den |-> 1]

\* A comparison that turns round for a deficit ceiling
IsOnTrackMirrored(balance, target) ==
  IF target >= 0 THEN balance >= target ELSE balance <= target

\* isOnTrack = isPositiveTarget ? balance >= target : balance >= target
IsOnTrack(balance, target) ==
  IF target >= 0 THEN balance >= target ELSE balance >= target

\* No shortfall paragraph on the card
NoMessage == [text |-> "none", value |-> 0]

\* {!isOnTrack && (<p>...</p>)}: the shortfall paragraph of the card
ShortfallMessage(balance, target) ==
  IF ~IsOnTrack(balance, target)
  THEN IF target >= 0
       THEN [text |-> "Faltam ... para atingir a meta", value |-> target - balance]
       ELSE [text |-> "Você excedeu o déficit em ...", value |-> Abs(balance - target)]
  ELSE NoMessage

\* What the card of one budget renders
BudgetCard(budget) ==
  LET target == budget.amount
      balance == budget.balance
      percentage == Percentage(balance, target)
  IN [id |-> budget.id, target |-> target, balance |-> balance,
      percentage |-> percentage,
      isPositiveTarget |-> target >= 0,
      isOnTrack |-> IsOnTrack(balance, target),
      reported |-> ToFixed1(percentage),
      width |-> Width(percentage),
      message |-> ShortfallMessage(balance, target)]

\* ------------------------------------------------ Reports: savings rate
\* monthlyData.find(m => m.month === selectedMonth)
HasMonth(monthly, month) == \E i \in 1..Len(monthly) : monthly[i].month = month
FindMonth(monthly, month) ==
  monthly[CHOOSE i \in 1..Len(monthly) : monthly[i].month = month]

\* savingsRate: ((income - expense) / income) * 100 as the exact fraction
\* num / den when the selected month has an entry with a non-zero income,
\* else 0
SavingsRate(monthly, month) ==
  IF HasMonth(monthly, month) /\ FindMonth(monthly, month).income # 0
  THEN LET currentMonth == FindMonth(monthly, month)
       IN [num |-> (currentMonth.income - currentMonth.expense) * 100,
           den |-> currentMonth.income]
  ELSE [num |-> 0, den |-> 1]

\* ------------------------------------------------------ Reports.fetchData
\* The filter state a run of fetchData closes over
Filters ==
  [selectedMonth |-> selectedMonth, selectedAccounts |-> selectedAccounts,
   selectedCategories |-> selectedCategories,
   selectedSubcategories |-> selectedSubcategories, selectedTags |-> selectedTags,
   startDate |-> startDate, endDate |-> endDate]

\* The queries of fetchData, in the order it issues them
Queries ==
  <<"accounts", "allTransactions", "transactions", "tags", "transaction_tags",
    "budgets", "categories", "subcategories">>

\* The queries whose error fetchData throws; of the others it reads data only
Checked == {"allTransactions", "transactions"}

\* The body of fetchData after its queries, under the filter state f: data
\* is what each query returned (|| [] for a null), failed the queries that
\* answered with an error.
FetchDataOf(f, accountsData, allTransactions, trans, transactionTagsData, budgetsData, categoriesData, failed) ==
  \E filtered \in {FilterByTags(f, trans, transactionTagsData)} :
   \E replay \in {Replay(accountsData, ReplayInput(allTransactions, filtered))} :
     /\ monthlyData' = MonthlyOf(filtered)
     /\ dailyBalances' = DailyBalancesOf(f, replay.dailyAccountBalances)
     /\ budgets' = BudgetsWithBalanceOf(budgetsData, categoriesData,
                                        CategoryBalancesOf(f, filtered))
     /\ run' = [loaded |-> TRUE,
                failed |-> failed,
                runs |-> IF run.runs < MaxRuns THEN run.runs + 1 ELSE run.runs,
                accountsData |-> accountsData,
                returned |-> allTransactions,
                allTransactions |-> AllTransactionsAfterSort(allTransactions),
                sortedAllTransactions |->
                  SortByDate(ReplayInput(allTransactions, filtered)),
                filteredTransactions |-> Range(filtered),
                accountBalances |-> replay.accountBalances,
                dailyAccountBalances |-> replay.dailyAccountBalances,
                processedTransfers |-> replay.processedTransfers,
                applied |-> replay.applied]

\* fetchData under the filter state f, with the arrays the two transaction
\* queries returned and every query answered.
FetchDataWith(f, allTransactions, trans) ==
  FetchDataOf(f, AccountsData, allTransactions, trans, transaction_tags,
              BudgetsData(f), CategoryIds, {})

\* The two transaction queries read one table: the second returns the rows that
\* match its filters in the order the first returned them. Every order of the
\* matching rows is still one of the orders drawn here.
FetchData(f) ==
  \E allTransactions \in Orders(transactions) :
    LET Matches(t) == MatchesTransQuery(f, t)
    IN FetchDataWith(f, allTransactions, SelectSeq(allTransactions, Matches))

\* ------------------------------------------------- Dashboard.fetchAccounts
\* A query without the date bound
DatedAnyDay == transactions

\* .lte("date", new Date().toISOString().split('T')[0])
DatedUpToToday == {t \in transactions : t.date <= today}

\* One iteration of transactionsData.forEach of the Dashboard
DashboardStep(accountBalances, t) ==
  IF t.type = "transferencia" THEN
    LET originBalance == MapGetOr0(accountBalances, t.account_id)
        bal1 == MapSet(accountBalances, t.account_id, originBalance - t.amount)
    IN IF t.destination_account_id # NULL
       THEN MapSet(bal1, t.destination_account_id,
                   MapGetOr0(bal1, t.destination_account_id) + t.amount)
       ELSE bal1
  ELSE
    LET currentBalance == MapGetOr0(accountBalances, t.account_id)
        change == IF t.type = "receita" THEN t.amount ELSE 0 - t.amount
    IN MapSet(accountBalances, t.account_id, currentBalance + change)

RECURSIVE DashboardFold(_, _, _)
DashboardFold(accountsData, transactionsData, n) ==
  IF n = 0 THEN [a \in {x.id : x \in accountsData} |->
                   (CHOOSE x \in accountsData : x.id = a).balance]
  ELSE DashboardStep(DashboardFold(accountsData, transactionsData, n - 1),
                     transactionsData[n])

\* accountBalances.get(acc.id) || Number(acc.balance)
CurrentBalanceOr(accountBalances, acc) ==
  IF MapGetOr0(accountBalances, acc.id) # 0
  THEN accountBalances[acc.id] ELSE acc.balance

\* accountsWithCurrentBalance, as account id -> displayed balance
AccountsWithCurrentBalance(accountsData, accountBalances) ==
  [a \in {x.id : x \in accountsData} |->
     CurrentBalanceOr(accountBalances, CHOOSE x \in accountsData : x.id = a)]

DashboardFetchAccounts ==
  /\ \E transactionsData \in Orders(DatedUpToToday) :
      \E accountsData \in {AccountsData} :
       \E shown \in {AccountsWithCurrentBalance(accountsData,
                       DashboardFold(accountsData, transactionsData,
                                     Len(transactionsData)))} :
         dashboard' = [loaded |-> TRUE,
                       accountsData |-> accountsData,
                       accounts |-> shown,
                       totalBalance |-> SumOver(DOMAIN shown, shown),
                       transactionsData |-> transactionsData]
  /\ UNCHANGED <<storeVars, filterVars, reportVars, accountsPage, txPage, toast, forms>>

\* -------------------------------------------------- Accounts.fetchAccounts
\* One iteration of transactionsData.forEach of the Accounts page; the query
\* selects account_id, amount, type and date only.
AccountsStep(accountBalances, t) ==
  LET currentBalance == MapGetOr0(accountBalances, t.account_id)
      change == IF t.type = "receita" THEN t.amount ELSE 0 - t.amount
  IN MapSet(accountBalances, t.account_id, currentBalance + change)

RECURSIVE AccountsFold(_, _, _)
AccountsFold(accountsData, transactionsData, n) ==
  IF n = 0 THEN [a \in {x.id : x \in accountsData} |->
                   (CHOOSE x \in accountsData : x.id = a).balance]
  ELSE AccountsStep(AccountsFold(accountsData, transactionsData, n - 1),
                    transactionsData[n])

\* fetchAccounts of the Accounts page over the tables as given
AccountsFetchOf(accountsTable, transactionsTable) ==
  \E transactionsData \in Orders({t \in transactionsTable : t.date <= today}) :
    \E accountsData \in {{[id |-> a, name |-> AccountName[a], balance |-> accountsTable[a]] :
                             a \in DOMAIN accountsTable}} :
      accountsPage' = [loaded |-> TRUE,
                       accountsData |-> accountsData,
                       accounts |-> AccountsWithCurrentBalance(accountsData,
                                      AccountsFold(accountsData, transactionsData,
                                                   Len(transactionsData))),
                       transactionsData |-> transactionsData]

AccountsFetchAccounts ==
  /\ AccountsFetchOf(accounts, transactions)
  /\ UNCHANGED <<storeVars, filterVars, reportVars, dashboard, forms, txPage, toast>>

\* -------------------------------------------------- Transactions.fetchData
\* The filters of transQuery of the Transactions page
MatchesListQuery(t, selectedAccount) ==
  /\ selectedAccount # "all" => t.account_id = selectedAccount
  /\ txPage.selectedCategory # "all" => t.category_id = txPage.selectedCategory
  /\ txPage.startDate # NoDate => t.date >= txPage.startDate
  /\ txPage.endDate # NoDate => t.date <= txPage.endDate

\* .order("date", { ascending: false }): rows of one date come in any order
OrdersByDateDescending(S) ==
  {s \in Orders(S) : \A i \in 1..Len(s), j \in 1..Len(s) : i < j => s[i].date >= s[j].date}

\* transactionsWithTags: every returned row with the tags linked to it
WithTags(t, transactionTagsData) ==
  [row |-> t,
   tags |-> {tt[2] : tt \in {x \in transactionTagsData : x[1] = t.id /\ x[2] \in TagIds}}]

\* fetchData of the Transactions page over the tables as given
TransactionsFetchWith(transactionsTable, transactionTagsData, selectedAccount, selectedTags_) ==
  \E returned \in OrdersByDateDescending(
                    {t \in transactionsTable : MatchesListQuery(t, selectedAccount)}) :
    LET transactionsWithTags ==
          [i \in 1..Len(returned) |-> WithTags(returned[i], transactionTagsData)]
        HasSelectedTag(tx) == \E tag \in tx.tags : tag \in selectedTags_
    IN txPage' = [txPage EXCEPT
                    !.loaded = TRUE,
                    !.selectedAccount = selectedAccount,
                    !.selectedTags = selectedTags_,
                    !.transactions =
                       IF selectedTags_ # {}
                       THEN SelectSeq(transactionsWithTags, HasSelectedTag)
                       ELSE transactionsWithTags]

\* fetchData of the Transactions page under the tag selection of the page
TransactionsFetchOf(transactionsTable, transactionTagsData, selectedAccount) ==
  TransactionsFetchWith(transactionsTable, transactionTagsData, selectedAccount,
                        txPage.selectedTags)

\* fetchData of the Transactions page under the account filter selectedAccount
TransactionsFetch(selectedAccount) ==
  TransactionsFetchOf(transactions, transaction_tags, selectedAccount)

\* mount of the Transactions page
TransactionsFetchData ==
  /\ TransactionsFetch(txPage.selectedAccount)
  /\ UNCHANGED <<storeVars, filterVars, reportVars, dashboard, forms, accountsPage, toast>>

\* setSelectedAccount, and the fetchData its effect starts
TransactionsSetSelectedAccount ==
  /\ txPage.loaded
  /\ \E a \in {"all"} \cup DOMAIN accounts :
       a # txPage.selectedAccount /\ TransactionsFetch(a)
  /\ UNCHANGED <<storeVars, filterVars, reportVars, dashboard, forms, accountsPage, toast>>

\* The tag badge of the filter bar: setSelectedTags(prev => prev.includes(id)
\* ? prev.filter(...) : [...prev, id]), and the fetchData its effect starts
TransactionsToggleTag ==
  /\ txPage.loaded
  /\ \E tag \in TagIds :
       TransactionsFetchWith(transactions, transaction_tags, txPage.selectedAccount,
                             IF tag \in txPage.selectedTags
                             THEN txPage.selectedTags \ {tag}
                             ELSE txPage.selectedTags \cup {tag})
  /\ UNCHANGED <<storeVars, filterVars, reportVars, dashboard, forms, accountsPage, toast>>

\* "Limpar Filtros" of the Transactions page
TransactionsClearFilters ==
  /\ txPage.loaded
  /\ TransactionsFetchWith(transactions, transaction_tags, "all", {})
  /\ UNCHANGED <<storeVars, filterVars, reportVars, dashboard, forms, accountsPage, toast>>

\* ------------------------------------------------- store: writes of rows
\* transactions_type_check
TransactionsTypeCheck(t) == t.type \in {"receita", "despesa", "transferencia"}

\* account_id NOT NULL REFERENCES accounts(id); destination_account_id
\* REFERENCES accounts(id)
AccountForeignKeys(accountsTable, t) ==
  /\ t.account_id \in DOMAIN accountsTable
  /\ t.destination_account_id = NULL \/ t.destination_account_id \in DOMAIN accountsTable

\* The table takes the row (insert or update)
RowAccepted(accountsTable, t) ==
  /\ TransactionsTypeCheck(t)
  /\ CheckTransferDestination(t)
  /\ AccountForeignKeys(accountsTable, t)

\* error.message of the statement the table refuses: the uuid cast fails
\* first, then the check constraints, then the foreign keys
ErrorMessage(accountsTable, t) ==
  IF t.account_id = NoAccount THEN "invalid input syntax for type uuid"
  ELSE IF ~TransactionsTypeCheck(t) THEN "transactions_type_check"
  ELSE IF ~CheckTransferDestination(t) THEN "check_transfer_destination"
  ELSE "transactions_account_id_fkey"

Toast(title, messages) == [title |-> title, description |-> messages]

\* gen_random_uuid(): an id no row has
NewId(rows) == CHOOSE i \in TxIds : \A t \in rows : t.id # i

\* What the form can hold at submit: the type select offers receita and
\* despesa, the amount input takes any number, the account select may be left
\* empty.
FormAmounts == {0 - 50, 100}
FormTypes == {"receita", "despesa"}

\* transactionData of handleSubmit; the insert leaves destination_account_id
\* and transfer_pair_id to their defaults
TransactionData(form) ==
  [type |-> form.type, amount |-> form.amount, date |-> form.date,
   account_id |-> form.account_id, category_id |-> form.category_id,
   subcategory_id |-> form.subcategory_id]

\* Transactions.handleSubmit without editingId, the date input set to one of
\* dates
HandleSubmitCreateOn(dates) ==
  /\ txPage.loaded /\ Cardinality(transactions) < MaxRows
  /\ \E ty \in FormTypes, am \in FormAmounts, acc \in DOMAIN accounts \cup {NoAccount},
        date \in dates :
       LET d == TransactionData([type |-> ty, amount |-> am, date |-> date,
                                 account_id |-> acc, category_id |-> NULL,
                                 subcategory_id |-> NULL])
           row == Row(NewId(transactions), d.type, d.amount, d.date, MaxCreatedAt,
                      d.account_id, NULL, NULL, d.category_id, d.subcategory_id)
       IN IF RowAccepted(accounts, row)
          THEN /\ transactions' = transactions \cup {row}
               /\ toast' = Toast("Transação criada", {})
               /\ TransactionsFetchOf(transactions \cup {row}, transaction_tags,
                                      txPage.selectedAccount)
          ELSE /\ toast' = Toast("Erro ao salvar transação", {ErrorMessage(accounts, row)})
               /\ UNCHANGED <<transactions, txPage>>
  /\ UNCHANGED <<accounts, transaction_tags, budgetsTable, today, filterVars,
                 reportVars, dashboard, forms, accountsPage>>

\* The date input left at its initial value, today
TransactionsHandleSubmitCreate ==
  /\ txPage.loaded
  /\ HandleSubmitCreateOn({today})

\* handleEdit of a listed row, changes in the form, and handleSubmit with
\* editingId: the update writes the columns of transactionData only.
TransactionsHandleSubmitEdit ==
  /\ txPage.loaded
  /\ \E i \in 1..Len(txPage.transactions) :
      LET listed == txPage.transactions[i] IN
      \E ty \in {listed.row.type} \cup FormTypes,
         am \in {listed.row.amount} \cup FormAmounts,
         acc \in DOMAIN accounts :
       LET d == TransactionData([type |-> ty, amount |-> am, date |-> listed.row.date,
                                 account_id |-> acc,
                                 category_id |-> listed.row.category_id,
                                 subcategory_id |-> listed.row.subcategory_id])
           Updated(t) == [t EXCEPT !.type = d.type, !.amount = d.amount,
                                   !.date = d.date, !.account_id = d.account_id,
                                   !.category_id = d.category_id,
                                   !.subcategory_id = d.subcategory_id]
           hit == {t \in transactions : t.id = listed.row.id}
           rows == (transactions \ hit) \cup {Updated(t) : t \in hit}
           links == {x \in transaction_tags : x[1] # listed.row.id}
                      \cup {<<listed.row.id, g>> : g \in listed.tags}
       IN IF \A t \in hit : RowAccepted(accounts, Updated(t))
          THEN /\ transactions' = rows
               /\ transaction_tags' = links
               /\ toast' = Toast("Transação atualizada", {})
               /\ TransactionsFetchOf(rows, links, txPage.selectedAccount)
          ELSE /\ toast' = Toast("Erro ao salvar transação",
                                   {ErrorMessage(accounts, Updated(t)) : t \in
                                      {u \in hit : ~RowAccepted(accounts, Updated(u))}})
               /\ UNCHANGED <<transactions, transaction_tags, txPage>>
  /\ UNCHANGED <<accounts, budgetsTable, today, filterVars, reportVars, dashboard, forms,
                 accountsPage>>

\* Transactions.handleDelete, confirmed: the links of the row go with it
TransactionsHandleDelete ==
  /\ txPage.loaded
  /\ \E i \in 1..Len(txPage.transactions) :
       LET id == txPage.transactions[i].row.id
           rows == {t \in transactions : t.id # id}
           links == {x \in transaction_tags : x[1] # id}
       IN /\ transactions' = rows
          /\ transaction_tags' = links
          /\ toast' = Toast("Transação excluída", {})
          /\ TransactionsFetchOf(rows, links, txPage.selectedAccount)
  /\ UNCHANGED <<accounts, budgetsTable, today, filterVars, reportVars, dashboard, forms,
                 accountsPage>>

\* ------------------------------------------------ TransactionImport
\* String.prototype.toLowerCase over the texts a sheet holds here
ToLowerCase ==
  [x \in {"Receita", "despesa", "transferencia", "outro", "Conta A", "CONTA B", "Conta B",
          "Outra"} |->
     CASE x = "Receita" -> "receita"
       [] x = "Conta A" -> "conta a"
       [] x \in {"CONTA B", "Conta B"} -> "conta b"
       [] x = "Outra" -> "outra"
       [] OTHER -> x]

\* The rows a sheet can hold: a row of each Tipo, a row without Valor and a row
\* of an unknown Conta; Descrição and Data are filled in and well formed,
\* Categoria is empty.
SheetRows ==
  [Valor : {100}, Tipo : {"Receita", "transferencia", "outro"}, Conta : {"CONTA B"}]
    \cup {[Valor |-> 0, Tipo |-> "Receita", Conta |-> "CONTA B"],
          [Valor |-> 100, Tipo |-> "Receita", Conta |-> "Outra"]}

\* A row counted as an error that is not put on the list
ImportFailedUnlisted(st, message) == [st EXCEPT !.errorCount = @ + 1]

\* errors.push(...); errorCount++
ImportFailed(st, message) ==
  [st EXCEPT !.errorCount = @ + 1, !.errors = Append(@, message)]

\* A destination taken from the accounts
ImportDestinationFirst == "a1"

\* destination_account_id: null of transactionData
ImportDestination == NULL

\* One iteration of the loop over jsonData: the row is skipped with an error,
\* or inserted with destination_account_id null.
ImportStep(accountsTable, st, row) ==
  LET Failed(message) == ImportFailed(st, message)
      tipo == ToLowerCase[row.Tipo]
      found == {a \in DOMAIN accountsTable :
                  ToLowerCase[AccountName[a]] = ToLowerCase[row.Conta]}
  IN IF row.Valor = 0 THEN Failed("campos obrigatórios faltando")
     ELSE IF tipo \notin {"receita", "despesa", "transferencia"} THEN Failed("tipo inválido")
     ELSE IF found = {} THEN Failed("conta não encontrada")
     ELSE LET account == CHOOSE a \in found : TRUE
              t == Row(NewId(st.rows), tipo, row.Valor, today, MaxCreatedAt, account,
                       ImportDestination, NULL, NULL, NULL)
          IN IF RowAccepted(accountsTable, t)
             THEN [st EXCEPT !.rows = @ \cup {t}, !.successCount = @ + 1]
             ELSE Failed(ErrorMessage(accountsTable, t))

RECURSIVE ImportFold(_, _, _, _)
ImportFold(accountsTable, rows, jsonData, n) ==
  IF n = 0 THEN [rows |-> rows, successCount |-> 0, errorCount |-> 0, errors |-> <<>>]
  ELSE ImportStep(accountsTable, ImportFold(accountsTable, rows, jsonData, n - 1),
                  jsonData[n])

\* The dialog of the import opens and closes
ImportDialogOpen ==
  /\ ~forms.import.open
  /\ forms' = [forms EXCEPT !.import.open = TRUE]
  /\ UNCHANGED <<storeVars, filterVars, reportVars, dashboard, accountsPage, txPage, toast>>

ImportDialogClose ==
  /\ forms.import.open /\ ~forms.import.importing
  /\ forms' = [forms EXCEPT !.import.open = FALSE]
  /\ UNCHANGED <<storeVars, filterVars, reportVars, dashboard, accountsPage, txPage, toast>>

\* handleFileUpload up to its first await: a file is chosen, setImporting(true)
ImportChooseFile ==
  /\ forms.import.open /\ ~forms.import.importing
  /\ forms' = [forms EXCEPT !.import.importing = TRUE]
  /\ UNCHANGED <<storeVars, filterVars, reportVars, dashboard, accountsPage, txPage, toast>>

\* The rest of handleFileUpload: the sheet is read, its rows are processed,
\* the toasts are shown (the last one stays), the dialog closes and
\* onImportComplete is called when a row was stored, setImporting(false).
\* With closing the dialog is closed afterwards if it is still open, and the
\* component is as it was.
HandleFileUploadOf(closing) ==
  LET After(data) == IF closing THEN ImportData(FALSE) ELSE data IN
  /\ \E n \in {m \in 0..MaxRows : Cardinality(transactions) + m <= Cardinality(TxIds)} :
      \E jsonData \in [1..n -> SheetRows] :
       \E st \in {s \in {ImportFold(accounts, transactions, jsonData, n)} :
                     Cardinality(s.rows) <= MaxRows} :
         IF n = 0
         THEN /\ toast' = Toast("Erro ao importar arquivo", {"O arquivo está vazio"})
              /\ forms' = [forms EXCEPT !.import = After(ImportData(TRUE))]
              /\ UNCHANGED transactions
         ELSE /\ transactions' = st.rows
              /\ toast' = IF st.errorCount > 0
                          THEN Toast("Erros na importação", Range(st.errors))
                          ELSE Toast("Importação concluída", {})
              /\ forms' = [forms EXCEPT !.import =
                             After([open |-> ~(st.successCount > 0),
                                    importing |-> FALSE,
                                    onImportComplete |-> st.successCount > 0,
                                    counted |-> [rows |-> n,
                                                 successCount |-> st.successCount,
                                                 errorCount |-> st.errorCount,
                                                 errors |-> st.errors]])]
  /\ UNCHANGED <<accounts, transaction_tags, budgetsTable, today, filterVars,
                 reportVars, dashboard, accountsPage, txPage>>

\* handleFileUpload after its first await
ImportHandleFileUpload ==
  /\ forms.import.importing
  /\ HandleFileUploadOf(FALSE)

\* The dialog is opened, a file is chosen, handleFileUpload runs to its end,
\* the dialog is closed if it is still open: the component is as it was
ImportSession ==
  /\ ~forms.import.open
  /\ HandleFileUploadOf(TRUE)

\* ------------------------------------------------- Accounts.handleDelete
\* DELETE of the accounts row: the rows whose account_id is the account go
\* with it (ON DELETE CASCADE); destination_account_id references accounts
\* without an ON DELETE action, so a row left that names the account as
\* destination fails the statement.
AccountsHandleDelete ==
  /\ accountsPage.loaded
  /\ \E id \in DOMAIN accountsPage.accounts \cap DOMAIN accounts :
       LET kept == {t \in transactions : t.account_id # id}
           accountsTable == [a \in DOMAIN accounts \ {id} |-> accounts[a]]
           links == {x \in transaction_tags : \E t \in kept : t.id = x[1]}
       IN IF \A t \in kept : t.destination_account_id # id
          THEN /\ accounts' = accountsTable
               /\ transactions' = kept
               /\ transaction_tags' = links
               /\ toast' = Toast("Conta excluída com sucesso!", {})
               /\ AccountsFetchOf(accountsTable, kept)
          ELSE /\ toast' = Toast("Erro ao excluir conta",
                                   {"transactions_destination_account_id_fkey"})
               /\ UNCHANGED <<accounts, transactions, transaction_tags, accountsPage>>
  /\ UNCHANGED <<budgetsTable, today, filterVars, reportVars, dashboard, forms, txPage>>

\* ------------------------------------------------------------ initial state
\* open = false, editingId = null, editingBudget = null, editingAccount = null
FormsInit ==
  [tx |-> [open |-> FALSE, editingId |-> NULL, formData |-> TxFormData(today)],
   budget |-> [open |-> FALSE, editingBudget |-> NULL, formData |-> BudgetFormData(today)],
   account |-> [dialogOpen |-> FALSE, editingAccount |-> NULL, formData |-> AccountFormData],
   import |-> ImportData(FALSE)]

NotLoaded ==
  [loaded |-> FALSE, failed |-> {}, runs |-> 0, accountsData |-> {}, returned |-> <<>>,
   allTransactions |-> <<>>, sortedAllTransactions |-> <<>>,
   filteredTransactions |-> {}, accountBalances |-> <<>>,
   dailyAccountBalances |-> <<>>, processedTransfers |-> {}, applied |-> {}]

ViewsInit ==
  /\ selectedAccounts = {} /\ selectedCategories = {}
  /\ selectedSubcategories = {} /\ selectedTags = {}
  /\ startDate = NoDate /\ endDate = NoDate
  /\ selectedMonth = MonthOf(today)
  /\ run = NotLoaded
  /\ monthlyData = <<>> /\ dailyBalances = <<>> /\ budgets = {}
  /\ dashboard = [loaded |-> FALSE, accountsData |-> {}, accounts |-> <<>>,
                  totalBalance |-> 0, transactionsData |-> <<>>]
  /\ accountsPage = [loaded |-> FALSE, accountsData |-> {}, accounts |-> <<>>,
                     transactionsData |-> <<>>]
  /\ txPage = [loaded |-> FALSE, selectedAccount |-> "all", selectedCategory |-> "all",
               selectedTags |-> {}, startDate |-> NoDate, endDate |-> NoDate,
               transactions |-> <<>>]
  /\ toast = NoToast
  /\ forms = FormsInit

\* Rows of type receita or despesa
NonTransferRows(id, dates, amounts) ==
  {Row(id, ty, am, d, 0, a, NULL, NULL, NULL, NULL) :
     ty \in {"receita", "despesa"}, am \in amounts, d \in dates, a \in AccountIds}

\* Rows of type transferencia between two accounts; transfer_pair_id is one of pairs
TransferRows(id, dates, pairs, amounts) ==
  {Row(id, "transferencia", am, d, c, ad[1], ad[2], p, NULL, NULL) :
     am \in amounts, d \in dates, c \in CreatedAts,
     ad \in {x \in AccountIds \X AccountIds : x[1] # x[2]}, p \in pairs}

\* The id of a row that is not in the store (an orphaned pair reference)
AbsentId == "t9"

ReplayRows(id) ==
  NonTransferRows(id, ReplayDates, {AmountOfId[id]})
    \cup TransferRows(id, ReplayDates, {NULL, AbsentId} \cup ({"t1", "t2"} \ {id}),
                      {AmountOfId[id]})

\* The optional third row: an income of the first day, an expense of the last
ThirdRows ==
  {Row("t3", "receita", AmountOfId["t3"], 1, 0, "a1", NULL, NULL, NULL, NULL),
   Row("t3", "despesa", AmountOfId["t3"], NumDates - 1, 0, "a2", NULL, NULL, NULL, NULL)}

LinkedRows(id) ==
  NonTransferRows(id, ReplayDates, {AmountOfId[id]})
    \cup TransferRows(id, ReplayDates, {"t1", "t2"} \ {id}, {AmountOfId[id]})

\* Stores of the balance replay: two rows of any type, transfers linked to each
\* other, to nothing or to a missing row; or two rows whose transfers are
\* linked to each other, and a third row.
ReplayStores ==
  {{r1, r2} : r1 \in ReplayRows("t1"), r2 \in ReplayRows("t2")}
    \cup {{r1, r2, r3} : r1 \in LinkedRows("t1"), r2 \in LinkedRows("t2"), r3 \in ThirdRows}

InitReplay ==
  /\ accounts = [a \in AccountIds |-> IF a = "a1" THEN 1000 ELSE 0]
  /\ transactions \in ReplayStores
  /\ transaction_tags = {}
  /\ budgetsTable = {}
  /\ today = NumDates
  /\ ViewsInit

\* ------------------------------------------------------------------ actions
\* Reports: mount, or a refresh of the page
ReportsFetchData ==
  /\ FetchData(Filters)
  /\ UNCHANGED <<storeVars, filterVars, dashboard, forms, accountsPage, txPage, toast>>

\* Reports: the first run of the effect
ReportsMount ==
  /\ ~run.loaded
  /\ ReportsFetchData

\* The catch block of fetchData: the error of the first checked query that
\* failed is shown; what the earlier runs set stays.
FetchDataCatch(failed) ==
  LET first == CHOOSE i \in 1..Len(Queries) :
                 /\ Queries[i] \in failed \cap Checked
                 /\ \A j \in 1..(i - 1) : Queries[j] \notin failed \cap Checked
  IN /\ toast' = Toast("Erro ao carregar dados", {Queries[first]})
     /\ run' = [run EXCEPT
                  !.loaded = TRUE,
                  !.runs = IF @ < MaxRuns THEN @ + 1 ELSE @,
                  !.failed = {Queries[j] : j \in {k \in 1..first : Queries[k] \in failed}}]
     /\ UNCHANGED <<monthlyData, dailyBalances, budgets>>

\* Reports: a run of fetchData in which up to MaxFailures of the queries
\* answer with an error (data null)
ReportsFetchDataResponses ==
  /\ \E failed \in {S \in SUBSET Range(Queries) : Cardinality(S) <= MaxFailures},
        allTransactions \in Orders(transactions) :
       IF failed \cap Checked # {}
       THEN FetchDataCatch(failed)
       ELSE LET Matches(t) == MatchesTransQuery(Filters, t)
            IN /\ FetchDataOf(Filters,
                              IF "accounts" \in failed THEN {} ELSE AccountsData,
                              allTransactions,
                              SelectSeq(allTransactions, Matches),
                              IF "transaction_tags" \in failed THEN {} ELSE transaction_tags,
                              IF "budgets" \in failed THEN {} ELSE BudgetsData(Filters),
                              IF "categories" \in failed THEN {} ELSE CategoryIds,
                              failed)
               /\ toast' = toast
  /\ UNCHANGED <<storeVars, filterVars, dashboard, forms, accountsPage, txPage>>

\* The filter state becomes f and the effect runs fetchData under it.
ApplyFilters(f) ==
  /\ selectedMonth' = f.selectedMonth
  /\ selectedAccounts' = f.selectedAccounts
  /\ selectedCategories' = f.selectedCategories
  /\ selectedSubcategories' = f.selectedSubcategories
  /\ selectedTags' = f.selectedTags
  /\ startDate' = f.startDate
  /\ endDate' = f.endDate
  /\ FetchData(f)
  /\ UNCHANGED <<storeVars, dashboard, forms, accountsPage, txPage, toast>>

\* The page is loaded and the number of runs is below its cap
CanChangeFilters == run.loaded /\ run.runs < MaxRuns

\* The button "Limpar Filtros": the six setters in one update
ClearFilters ==
  /\ CanChangeFilters
  /\ \E f \in {[Filters EXCEPT !.startDate = NoDate, !.endDate = NoDate,
                               !.selectedAccounts = {}, !.selectedCategories = {},
                               !.selectedSubcategories = {}, !.selectedTags = {}]} :
       f # Filters /\ ApplyFilters(f)

SetSelectedMonth ==
  /\ CanChangeFilters
  /\ \E m \in Months \ {selectedMonth} :
       ApplyFilters([Filters EXCEPT !.selectedMonth = m])

SetSelectedAccounts ==
  /\ CanChangeFilters
  /\ \E v \in (SUBSET DOMAIN accounts) \ {selectedAccounts} :
       ApplyFilters([Filters EXCEPT !.selectedAccounts = v])

SetSelectedCategories ==
  /\ CanChangeFilters
  /\ \E v \in (SUBSET CategoryIds) \ {selectedCategories} :
       ApplyFilters([Filters EXCEPT !.selectedCategories = v])

SetSelectedSubcategories ==
  /\ CanChangeFilters
  /\ \E v \in (SUBSET SubcategoryIds) \ {selectedSubcategories} :
       ApplyFilters([Filters EXCEPT !.selectedSubcategories = v])

\* The tag MultiSelect, its options being tags
SetSelectedTagsAmong(tags) ==
  \E v \in (SUBSET tags) \ {selectedTags} :
    ApplyFilters([Filters EXCEPT !.selectedTags = v])

\* In the stores of the aggregations the user has one tag
SetSelectedTags ==
  /\ CanChangeFilters
  /\ SetSelectedTagsAmong({"g1"})

SetSelectedTagsOfTwo ==
  /\ CanChangeFilters
  /\ SetSelectedTagsAmong(TagIds)

SetStartDate ==
  /\ CanChangeFilters
  /\ \E d \in ({NoDate} \cup Dates) \ {startDate} :
       ApplyFilters([Filters EXCEPT !.startDate = d])

SetEndDate ==
  /\ CanChangeFilters
  /\ \E d \in ({NoDate} \cup Dates) \ {endDate} :
       ApplyFilters([Filters EXCEPT !.endDate = d])

NextReplay == ReportsFetchData

SpecReplay == InitReplay /\ [][NextReplay]_vars

\* Stores of the aggregations: t1 is an income or an expense of 500 on a1 in
\* category c1, subcategory s1, tagged g1; t2 is an expense of 300 on a2, with
\* or without a category, or a transfer of 300 from a1 to a2 that carries a
\* category. t1 has any date, t2 the first or the last one.
ReportRows ==
  {{Row("t1", ty, 500, d1, 0, "a1", NULL, NULL, "c1", "s1"), r2} :
     ty \in {"receita", "despesa"}, d1 \in Dates,
     r2 \in {Row("t2", "despesa", 300, d2, 0, "a2", NULL, NULL, c, NULL) :
               d2 \in {1, NumDates}, c \in {NULL, "c1"}}
          \cup {Row("t2", "transferencia", 300, d2, 0, "a1", "a2", NULL, "c1", NULL) :
                  d2 \in {1, NumDates}}}

\* Budgets of the first month: c1 with targets 400 and -300; of the last month:
\* c1 with target 0, c2 with target 400
ReportBudgets ==
  {[id |-> "b1", category_id |-> "c1", amount |-> 400, month |-> MonthStart(0)],
   [id |-> "b2", category_id |-> "c1", amount |-> 0 - 300, month |-> MonthStart(0)],
   [id |-> "b3", category_id |-> "c1", amount |-> 0, month |-> MonthStart(MonthOf(NumDates))],
   [id |-> "b4", category_id |-> "c2", amount |-> 400, month |-> MonthStart(MonthOf(NumDates))]}

InitReports ==
  /\ accounts = [a \in AccountIds |-> IF a = "a1" THEN 1000 ELSE 0]
  /\ transactions \in ReportRows
  /\ transaction_tags = {<<"t1", "g1">>}
  /\ budgetsTable = ReportBudgets
  /\ today = NumDates
  /\ ViewsInit

NextReports ==
  \/ ReportsMount
  \/ ClearFilters
  \/ SetSelectedMonth
  \/ SetSelectedAccounts
  \/ SetSelectedCategories
  \/ SetSelectedSubcategories
  \/ SetSelectedTags
  \/ SetStartDate
  \/ SetEndDate

SpecReports == InitReports /\ [][NextReports]_vars

\* --------------------------------------------------- Reports: budget dialog
\* The budget dialog becomes dialog
BudgetDialog(dialog) ==
  /\ forms' = [forms EXCEPT !.budget = dialog]
  /\ UNCHANGED <<storeVars, filterVars, reportVars, dashboard, accountsPage, txPage, toast>>

\* onOpenChange(true) by the trigger "Novo Orçamento"
BudgetDialogOpen ==
  /\ run.loaded /\ ~forms.budget.open
  /\ LET d == forms.budget IN BudgetDialog([d EXCEPT !.open = TRUE])

\* onOpenChange(false): the dialog closes, editingBudget and formData are reset
BudgetDialogClose ==
  /\ forms.budget.open
  /\ BudgetDialog([open |-> FALSE, editingBudget |-> NULL,
                  formData |-> BudgetFormData(today)])

\* The edit button of a budget card
BudgetEdit ==
  /\ run.loaded /\ ~forms.budget.open
  /\ \E budget \in budgets :
       BudgetDialog([open |-> TRUE, editingBudget |-> budget.id,
                    formData |-> [category_id |-> budget.category_id,
                                  amount |-> ToString(budget.amount),
                                  month |-> MonthOf(budget.month)]])

\* The texts typed into the amount input of the budget dialog
BudgetAmounts == {"400"}

\* The category select, the amount input and the month input of the dialog
BudgetSetCategory ==
  /\ forms.budget.open
  /\ \E c \in CategoryIds \ {forms.budget.formData.category_id} :
       LET d == forms.budget IN BudgetDialog([d EXCEPT !.formData.category_id = c])

BudgetSetAmount ==
  /\ forms.budget.open
  /\ \E a \in BudgetAmounts \ {forms.budget.formData.amount} :
       LET d == forms.budget IN BudgetDialog([d EXCEPT !.formData.amount = a])

BudgetSetMonth ==
  /\ forms.budget.open
  /\ \E m \in Months \ {forms.budget.formData.month} :
       LET d == forms.budget IN BudgetDialog([d EXCEPT !.formData.month = m])

\* A month text that names the month after
FormMonthNext(month) == MonthStart(month + 1)

\* formData.month + "-01"
FormMonth(month) == MonthStart(month)

\* category_id is a uuid column: the empty text is no uuid
BudgetAccepted(b) == b.category_id # Empty

NewBudgetId(rows) == CHOOSE i \in BudgetIds : \A b \in rows : b.id # i

\* fetchData over the budgets table as given
FetchDataOverBudgets(table) ==
  \E allTransactions \in Orders(transactions) :
    LET Matches(t) == MatchesTransQuery(Filters, t)
    IN FetchDataOf(Filters, AccountsData, allTransactions,
                   SelectSeq(allTransactions, Matches), transaction_tags,
                   BudgetsDataOf(table, Filters), CategoryIds, {})

\* Reports.handleSubmitBudget; the amount input is required
HandleSubmitBudget ==
  /\ forms.budget.open /\ forms.budget.formData.amount # Empty
  /\ forms.budget.editingBudget = NULL => Cardinality(budgetsTable) < MaxRows
  /\ LET formData == forms.budget.formData
         written == [category_id |-> formData.category_id,
                     amount |-> Number(formData.amount),
                     month |-> FormMonth(formData.month)]
         Updated(b) == [b EXCEPT !.category_id = written.category_id,
                                 !.amount = written.amount,
                                 !.month = written.month]
         table == IF forms.budget.editingBudget # NULL
                  THEN {IF b.id = forms.budget.editingBudget THEN Updated(b) ELSE b :
                          b \in budgetsTable}
                  ELSE budgetsTable \cup
                         {[id |-> NewBudgetId(budgetsTable),
                           category_id |-> written.category_id,
                           amount |-> written.amount, month |-> written.month]}
     IN IF BudgetAccepted(written)
        THEN /\ budgetsTable' = table
             /\ toast' = Toast(IF forms.budget.editingBudget # NULL
                               THEN "Orçamento atualizado" ELSE "Orçamento criado", {})
             /\ forms' = [forms EXCEPT !.budget =
                            [open |-> FALSE, editingBudget |-> NULL,
                             formData |-> BudgetFormData(today)]]
             /\ FetchDataOverBudgets(table)
        ELSE /\ toast' = Toast("Erro ao salvar orçamento", {"invalid input syntax for type uuid"})
             /\ UNCHANGED <<budgetsTable, reportVars, forms>>
  /\ UNCHANGED <<accounts, transactions, transaction_tags, today, filterVars,
                 dashboard, accountsPage, txPage>>

\* Reports.handleDeleteBudget, confirmed
HandleDeleteBudget ==
  /\ run.loaded /\ ~forms.budget.open
  /\ \E budget \in budgets :
       LET table == {b \in budgetsTable : b.id # budget.id}
       IN /\ budgetsTable' = table
          /\ toast' = Toast("Orçamento excluído", {})
          /\ FetchDataOverBudgets(table)
  /\ UNCHANGED <<accounts, transactions, transaction_tags, today, filterVars,
                 dashboard, accountsPage, txPage, forms>>

\* The budgets tab: one stored budget at the start, or none; the month input
\* of the tab and the dialog
InitBudgets ==
  /\ accounts = [a \in AccountIds |-> IF a = "a1" THEN 1000 ELSE 0]
  /\ transactions = {Row("t1", "receita", 500, 1, 0, "a1", NULL, NULL, "c1", "s1")}
  /\ transaction_tags = {}
  /\ budgetsTable \in {{}} \cup {{b} : b \in {c \in ReportBudgets : c.amount = 400}}
  /\ today = NumDates
  /\ ViewsInit

NextBudgets ==
  \/ ReportsMount
  \/ SetSelectedMonth
  \/ BudgetDialogOpen
  \/ BudgetDialogClose
  \/ BudgetEdit
  \/ BudgetSetCategory
  \/ BudgetSetAmount
  \/ BudgetSetMonth
  \/ HandleSubmitBudget
  \/ HandleDeleteBudget

SpecBudgets == InitBudgets /\ [][NextBudgets]_vars

\* Reports over the same stores, where queries may fail
NextFetch == ReportsFetchDataResponses

SpecFetch == InitReports /\ [][NextFetch]_vars

\* Stores of the current-balance views: two rows dated before, on or after
\* today; incomes and expenses of 100, transfers of 200.
BalanceRows(id) ==
  NonTransferRows(id, Dates, {100})
    \cup TransferRows(id, Dates, {NULL} \cup ({"t1", "t2"} \ {id}), {200})

InitBalance ==
  /\ accounts \in [AccountIds -> {100, 1000}]
  /\ transactions \in {{r1, r2} : r1 \in BalanceRows("t1"), r2 \in BalanceRows("t2")}
  /\ transaction_tags = {}
  /\ budgetsTable = {}
  /\ today = NumDates - 1
  /\ ViewsInit

NextBalance == DashboardFetchAccounts \/ AccountsFetchAccounts

SpecBalance == InitBalance /\ [][NextBalance]_vars

NextList == TransactionsFetchData \/ TransactionsSetSelectedAccount

\* Stores the writes start from: empty, one expense, one transfer with its
\* destination, or a transfer pair between the two accounts
InitialRows ==
  {{},
   {Row("t1", "despesa", 100, 1, 0, "a2", NULL, NULL, NULL, NULL)},
   {Row("t1", "transferencia", 100, 1, 0, "a1", "a2", NULL, NULL, NULL)},
   {Row("t1", "transferencia", 100, 1, 0, "a1", "a2", "t2", NULL, NULL),
    Row("t2", "transferencia", 100, 1, 1, "a2", "a1", "t1", NULL, NULL)}}

InitStore ==
  /\ accounts = [a \in AccountIds |-> IF a = "a1" THEN 1000 ELSE 0]
  /\ transactions \in InitialRows
  /\ transaction_tags = {}
  /\ budgetsTable = {}
  /\ today = NumDates
  /\ ViewsInit

\* The Transactions and Accounts pages are mounted once.
TransactionsMount ==
  /\ ~txPage.loaded
  /\ TransactionsFetchData

AccountsMount ==
  /\ ~accountsPage.loaded
  /\ AccountsFetchAccounts

NextStore ==
  \/ TransactionsMount
  \/ TransactionsHandleSubmitCreate
  \/ TransactionsHandleSubmitEdit
  \/ TransactionsHandleDelete
  \/ ImportSession

SpecStore == InitStore /\ [][NextStore]_vars

\* ------------------------------------------------- Accounts: account dialog
\* The account dialog becomes dialog
AccountDialog(dialog) ==
  /\ forms' = [forms EXCEPT !.account = dialog]
  /\ UNCHANGED <<storeVars, filterVars, reportVars, dashboard, accountsPage, txPage, toast>>

\* The trigger "Nova Conta": setEditingAccount(null), the dialog opens
AccountsDialogOpen ==
  /\ accountsPage.loaded /\ ~forms.account.dialogOpen
  /\ LET d == forms.account IN AccountDialog([d EXCEPT !.dialogOpen = TRUE, !.editingAccount = NULL])

\* onOpenChange(false) is setDialogOpen(false)
AccountsDialogClose ==
  /\ forms.account.dialogOpen
  /\ LET d == forms.account IN AccountDialog([d EXCEPT !.dialogOpen = FALSE])

\* The edit button of an account card: the account of the accounts state
AccountsEdit ==
  /\ accountsPage.loaded /\ ~forms.account.dialogOpen
  /\ \E id \in {a \in DOMAIN accountsPage.accounts :
                  accountsPage.accounts[a] \in (0 - MaxBalance)..MaxBalance} :
       AccountDialog([dialogOpen |-> TRUE, editingAccount |-> id,
                    formData |-> [balance |-> ToString(accountsPage.accounts[id])]])

\* The texts typed into the balance input
AccountBalances == {"50"}

AccountsSetBalance ==
  /\ forms.account.dialogOpen
  /\ \E b \in AccountBalances \ {forms.account.formData.balance} :
       LET d == forms.account IN AccountDialog([d EXCEPT !.formData.balance = b])

\* parseFloat of the text of the balance input; the empty text gives NaN,
\* which z.number() of accountSchema rejects
ParseFloat(text) == NumberOfText[text]
AccountSchemaAccepts(text) == text # Empty

\* An account id no account has
NewAccountId(accountsTable) == CHOOSE i \in AccountIds : i \notin DOMAIN accountsTable

\* Accounts.handleSubmit
AccountsHandleSubmit ==
  /\ forms.account.dialogOpen
  /\ forms.account.editingAccount = NULL => DOMAIN accounts # AccountIds
  /\ LET balance == ParseFloat(forms.account.formData.balance)
         id == forms.account.editingAccount
         accountsTable ==
           IF id # NULL
           THEN [a \in DOMAIN accounts |-> IF a = id THEN balance ELSE accounts[a]]
           ELSE [a \in DOMAIN accounts \cup {NewAccountId(accounts)} |->
                   IF a \in DOMAIN accounts THEN accounts[a] ELSE balance]
     IN IF ~AccountSchemaAccepts(forms.account.formData.balance)
        THEN /\ toast' = Toast("Erro de validação", {"Expected number, received nan"})
             /\ UNCHANGED <<accounts, accountsPage, forms>>
        ELSE /\ accounts' = accountsTable
             /\ toast' = Toast(IF id # NULL THEN "Conta atualizada com sucesso!"
                                           ELSE "Conta criada com sucesso!", {})
             /\ forms' = [forms EXCEPT !.account =
                            [dialogOpen |-> FALSE, editingAccount |-> NULL,
                             formData |-> AccountFormData]]
             /\ AccountsFetchOf(accountsTable, transactions)
  /\ UNCHANGED <<transactions, transaction_tags, budgetsTable, today, filterVars,
                 reportVars, dashboard, txPage>>

\* The account dialog over a store of at most one row
InitAccountDialog ==
  /\ accounts \in [AccountIds -> {100, 300}]
  /\ transactions \in {{}} \cup {{r} : r \in BalanceRows("t1")}
  /\ transaction_tags = {}
  /\ budgetsTable = {}
  /\ today = NumDates - 1
  /\ ViewsInit

\* Deletions while the dialog is closed
AccountsDeleteClosed ==
  /\ ~forms.account.dialogOpen
  /\ AccountsHandleDelete

NextAccountDialog ==
  \/ AccountsMount
  \/ AccountsDialogOpen
  \/ AccountsDialogClose
  \/ AccountsEdit
  \/ AccountsSetBalance
  \/ AccountsHandleSubmit
  \/ AccountsDeleteClosed

SpecAccountDialog == InitAccountDialog /\ [][NextAccountDialog]_vars

\* --------------------------------------------- Transactions: the dialog
\* A reset that leaves editingId as it is
ResetFormData(tx) == [tx EXCEPT !.formData = TxFormData(today)]

\* resetForm: setFormData(initial), setEditingId(null)
ResetForm(tx) == [tx EXCEPT !.formData = TxFormData(today), !.editingId = NULL]

\* A category change that keeps the subcategory
SetCategoryKeeping(formData, value) == [formData EXCEPT !.category_id = value]

\* onValueChange of the category select
SetCategory(formData, value) ==
  [formData EXCEPT !.category_id = value, !.subcategory_id = Empty]

\* filteredSubcategories
FilteredSubcategories(formData) ==
  {sub \in SubcategoryIds : SubcategoryCategory[sub] = formData.category_id}

\* A tag select that appends whatever is chosen
AddTagAgain(tag_ids, value) == Append(tag_ids, value)

\* onValueChange of the tag select
AddTag(tag_ids, value) ==
  IF value \notin Range(tag_ids) THEN Append(tag_ids, value) ELSE tag_ids

\* The remove button of a selected tag
RemoveTag(tag_ids, tagId) ==
  LET Other(id) == id # tagId IN SelectSeq(tag_ids, Other)

\* x || null and x || ""
OrNull(x) == IF x = Empty THEN NULL ELSE x
OrEmpty(x) == IF x = NULL THEN Empty ELSE x

\* The insert of tagRecords: one statement, refused as a whole when a pair
\* comes twice or is stored already (UNIQUE(transaction_id, tag_id))
TagRecords(id, tag_ids) == [i \in 1..Len(tag_ids) |-> <<id, tag_ids[i]>>]
TagRecordsAccepted(links, tagRecords) ==
  /\ \A i, j \in 1..Len(tagRecords) : tagRecords[i] = tagRecords[j] => i = j
  /\ \A i \in 1..Len(tagRecords) : tagRecords[i] \notin links

\* The transaction dialog becomes dialog
TxDialog(dialog) ==
  /\ forms' = [forms EXCEPT !.tx = dialog]
  /\ UNCHANGED <<storeVars, filterVars, reportVars, dashboard, accountsPage, txPage, toast>>

\* onOpenChange(true) by the trigger "Nova Transação"
TxDialogOpen ==
  /\ txPage.loaded /\ ~forms.tx.open
  /\ LET tx == forms.tx IN TxDialog([tx EXCEPT !.open = TRUE])

\* onOpenChange(false): setOpen(false), resetForm()
TxDialogClose ==
  /\ forms.tx.open
  /\ LET tx == forms.tx IN TxDialog(ResetForm([tx EXCEPT !.open = FALSE]))

\* handleEdit of a listed row
TxHandleEdit ==
  /\ txPage.loaded /\ ~forms.tx.open
  /\ \E i \in 1..Len(txPage.transactions) :
      \E tag_ids \in Orders(txPage.transactions[i].tags) :
       LET transaction == txPage.transactions[i].row
           dialog == [open |-> TRUE, editingId |-> transaction.id,
                      formData |-> [amount |-> ToString(transaction.amount),
                                    type |-> transaction.type,
                                    date |-> transaction.date,
                                    account_id |-> transaction.account_id,
                                    category_id |-> OrEmpty(transaction.category_id),
                                    subcategory_id |-> OrEmpty(transaction.subcategory_id),
                                    tag_ids |-> tag_ids]]
       IN TxDialog(dialog)

\* The texts typed into the amount input, the accounts chosen
TxAmounts == {"100"}
TxAccounts == {"a1"}

TxSetAmount ==
  /\ forms.tx.open
  /\ \E a \in TxAmounts \ {forms.tx.formData.amount} :
       LET tx == forms.tx IN TxDialog([tx EXCEPT !.formData.amount = a])

TxSetAccount ==
  /\ forms.tx.open
  /\ \E a \in (TxAccounts \cap DOMAIN accounts) \ {forms.tx.formData.account_id} :
       LET tx == forms.tx IN TxDialog([tx EXCEPT !.formData.account_id = a])

TxSetCategory ==
  /\ forms.tx.open
  /\ \E value \in CategoryIds \ {forms.tx.formData.category_id} :
       LET tx == forms.tx IN TxDialog([tx EXCEPT !.formData = SetCategory(@, value)])

\* The subcategory select offers filteredSubcategories
TxSetSubcategory ==
  /\ forms.tx.open
  /\ \E value \in FilteredSubcategories(forms.tx.formData) \ {forms.tx.formData.subcategory_id} :
       LET tx == forms.tx IN TxDialog([tx EXCEPT !.formData.subcategory_id = value])

TxAddTag ==
  /\ forms.tx.open /\ Len(forms.tx.formData.tag_ids) <= Cardinality(TagIds)
  /\ \E value \in TagIds :
       /\ AddTag(forms.tx.formData.tag_ids, value) # forms.tx.formData.tag_ids
       /\ LET tx == forms.tx IN TxDialog([tx EXCEPT !.formData.tag_ids = AddTag(@, value)])

TxRemoveTag ==
  /\ forms.tx.open
  /\ \E tagId \in Range(forms.tx.formData.tag_ids) :
       LET tx == forms.tx IN TxDialog([tx EXCEPT !.formData.tag_ids = RemoveTag(@, tagId)])

\* What handleSubmit does to the store and what it shows, for the dialog tx:
\* done is whether it reached setOpen(false)
HandleSubmitOf(tx) ==
  LET formData == tx.formData
      d == TransactionData([type |-> formData.type, amount |-> Number(formData.amount),
                            date |-> formData.date, account_id |-> formData.account_id,
                            category_id |-> OrNull(formData.category_id),
                            subcategory_id |-> OrNull(formData.subcategory_id)])
      Failed(rows, links, message) ==
        [transactions |-> rows, transaction_tags |-> links, done |-> FALSE,
         toast |-> Toast("Erro ao salvar transação", {message})]
      Done(rows, links, title) ==
        [transactions |-> rows, transaction_tags |-> links, done |-> TRUE,
         toast |-> Toast(title, {})]
      uniqueKey == "transaction_tags_transaction_id_tag_id_key"
  IN IF tx.editingId # NULL
     THEN LET Updated(t) == [t EXCEPT !.type = d.type, !.amount = d.amount,
                                     !.date = d.date, !.account_id = d.account_id,
                                     !.category_id = d.category_id,
                                     !.subcategory_id = d.subcategory_id]
              hit == {t \in transactions : t.id = tx.editingId}
              rows == (transactions \ hit) \cup {Updated(t) : t \in hit}
              deleted == {x \in transaction_tags : x[1] # tx.editingId}
              tagRecords == TagRecords(tx.editingId, formData.tag_ids)
          IN IF \E t \in hit : ~RowAccepted(accounts, Updated(t))
             THEN Failed(transactions, transaction_tags,
                         ErrorMessage(accounts, Updated(CHOOSE t \in hit :
                                                         ~RowAccepted(accounts, Updated(t)))))
             ELSE IF Len(formData.tag_ids) = 0 THEN Done(rows, deleted, "Transação atualizada")
             ELSE IF hit # {} /\ TagRecordsAccepted(deleted, tagRecords)
             THEN Done(rows, deleted \cup Range(tagRecords), "Transação atualizada")
             ELSE Failed(rows, deleted,
                         IF hit = {} THEN "transaction_tags_transaction_id_fkey" ELSE uniqueKey)
     ELSE LET row == Row(NewId(transactions), d.type, d.amount, d.date, MaxCreatedAt,
                         d.account_id, NULL, NULL, d.category_id, d.subcategory_id)
              rows == transactions \cup {row}
              tagRecords == TagRecords(row.id, formData.tag_ids)
          IN IF ~RowAccepted(accounts, row)
             THEN Failed(transactions, transaction_tags, ErrorMessage(accounts, row))
             ELSE IF Len(formData.tag_ids) = 0 THEN Done(rows, transaction_tags, "Transação criada")
             ELSE IF TagRecordsAccepted(transaction_tags, tagRecords)
             THEN Done(rows, transaction_tags \cup Range(tagRecords), "Transação criada")
             ELSE Failed(rows, transaction_tags, uniqueKey)

\* Transactions.handleSubmit; the amount input is required
TxHandleSubmit ==
  /\ forms.tx.open /\ forms.tx.formData.amount # Empty
  /\ forms.tx.editingId = NULL => Cardinality(transactions) < MaxRows
  /\ LET out == HandleSubmitOf(forms.tx)
     IN /\ transactions' = out.transactions
        /\ transaction_tags' = out.transaction_tags
        /\ toast' = out.toast
        /\ IF out.done
           THEN /\ forms' = [forms EXCEPT !.tx = ResetForm([@ EXCEPT !.open = FALSE])]
                /\ TransactionsFetchOf(out.transactions, out.transaction_tags,
                                       txPage.selectedAccount)
           ELSE UNCHANGED <<forms, txPage>>
  /\ UNCHANGED <<accounts, budgetsTable, today, filterVars, reportVars, dashboard,
                 accountsPage>>

\* The dialog over the empty store and over a store with one expense of a
\* category and a subcategory, with a tag linked to it or none
InitTxForm ==
  /\ accounts = [a \in AccountIds |-> IF a = "a1" THEN 1000 ELSE 0]
  /\ transactions \in {{}, {Row("t1", "despesa", 30, 1, 0, "a2", NULL, NULL, "c1", "s1")}}
  /\ transaction_tags \in {{}} \cup {{<<t.id, "g1">>} : t \in transactions}
  /\ budgetsTable = {}
  /\ today = NumDates
  /\ ViewsInit

\* The dialog with its category and subcategory selects
NextTxForm ==
  \/ TransactionsMount
  \/ TxDialogOpen
  \/ TxDialogClose
  \/ TxHandleEdit
  \/ TxSetAmount
  \/ TxSetAccount
  \/ TxSetCategory
  \/ TxSetSubcategory
  \/ TxHandleSubmit

SpecTxForm == InitTxForm /\ [][NextTxForm]_vars

\* The dialog with its tag select
NextTxTags ==
  \/ TransactionsMount
  \/ TxDialogOpen
  \/ TxDialogClose
  \/ TxHandleEdit
  \/ TxSetAmount
  \/ TxSetAccount
  \/ TxAddTag
  \/ TxRemoveTag
  \/ TxHandleSubmit

SpecTxTags == InitTxForm /\ [][NextTxTags]_vars

\* The import over the empty store and over a store with one transfer
InitImport ==
  /\ accounts = [a \in AccountIds |-> IF a = "a1" THEN 1000 ELSE 0]
  /\ transactions \in {{}, {Row("t1", "transferencia", 100, 1, 0, "a1", "a2", NULL, NULL, NULL)}}
  /\ transaction_tags = {}
  /\ budgetsTable = {}
  /\ today = NumDates
  /\ ViewsInit

NextImport ==
  \/ ImportDialogOpen
  \/ ImportDialogClose
  \/ ImportChooseFile
  \/ ImportHandleFileUpload

SpecImport == InitImport /\ [][NextImport]_vars

\* The Accounts page over a store of two rows: mount, then deletions
NextAccounts == AccountsMount \/ AccountsHandleDelete

SpecAccounts == InitBalance /\ [][NextAccounts]_vars

SpecList == InitBalance /\ [][NextList]_vars

\* The tag filters of the Reports page and of the Transactions page: two rows,
\* each linked to any of two tags
TagRows ==
  {Row("t1", "receita", 500, 1, 0, "a1", NULL, NULL, "c1", "s1"),
   Row("t2", "despesa", 300, NumDates, 0, "a2", NULL, NULL, NULL, NULL)}

InitTags ==
  /\ accounts = [a \in AccountIds |-> IF a = "a1" THEN 1000 ELSE 0]
  /\ transactions = TagRows
  /\ transaction_tags \in SUBSET ({"t1", "t2"} \X TagIds)
  /\ budgetsTable = {}
  /\ today = NumDates
  /\ ViewsInit

NextTags ==
  \/ ReportsMount
  \/ SetSelectedTagsOfTwo
  \/ TransactionsMount
  \/ TransactionsToggleTag
  \/ TransactionsClearFilters

SpecTags == InitTags /\ [][NextTags]_vars

\* The current-balance views while rows dated after today come and go: a
\* store that starts empty or with one row (an income, an expense or an
\* unpaired transfer of any date), the pages refreshed at any time, rows dated
\* after today created in the form and deleted from the list.
InitFuture ==
  /\ accounts \in {[a \in AccountIds |-> IF a = "a1" THEN 1000 ELSE b] : b \in {100, 1000}}
  /\ transactions \in
       {{}} \cup {{r1} : r1 \in {t \in BalanceRows("t1") :
                                   t.created_at = 0 /\ t.transfer_pair_id = NULL}}
  /\ transaction_tags = {}
  /\ budgetsTable = {}
  /\ today = NumDates - 1
  /\ ViewsInit

CreateFutureDated ==
  /\ txPage.loaded
  /\ HandleSubmitCreateOn({d \in Dates : d > today})

DeleteFutureDated ==
  /\ TransactionsHandleDelete
  /\ {t \in transactions' : t.date <= today} = {t \in transactions : t.date <= today}

NextFuture ==
  \/ TransactionsMount
  \/ DashboardFetchAccounts
  \/ AccountsFetchAccounts
  \/ CreateFutureDated
  \/ DeleteFutureDated

SpecFuture == InitFuture /\ [][NextFuture]_vars

\* ------------------------------------------------- what the claims refer to
IsTransfer(t) == t.type = "transferencia"

\* The two rows are a transfer pair linked to each other
LinkedPair(A, B) ==
  /\ IsTransfer(A) /\ IsTransfer(B) /\ A.id # B.id
  /\ A.transfer_pair_id = B.id /\ B.transfer_pair_id = A.id

\* The effect of applying row t on the balance of account a
EffectOn(t, a) ==
  IF t.type = "receita" THEN (IF t.account_id = a THEN t.amount ELSE 0)
  ELSE IF t.type = "despesa" THEN (IF t.account_id = a THEN 0 - t.amount ELSE 0)
  ELSE (IF t.account_id = a THEN 0 - t.amount ELSE 0)
         + (IF t.destination_account_id = a THEN t.amount ELSE 0)

NetEffect(rows, a) == SumOver(rows, [t \in rows |-> EffectOn(t, a)])

OpeningOf(accountsData, a) == (CHOOSE x \in accountsData : x.id = a).balance

RunRows == Range(run.returned)
AppliedRows == {t \in RunRows : t.id \in run.applied}

\* C1: in the Reports replay, of a transfer pair whose rows are linked to each
\* other and have different created_at only the earlier-created row is
\* applied (-amount on its account_id, +amount on its destination_account_id);
\* the later-created row changes no balance, whichever row is visited first.
C1_OnlyEarlierCreatedApplied ==
  run.loaded =>
    /\ \A A \in RunRows, B \in RunRows :
         (LinkedPair(A, B) /\ A.created_at < B.created_at)
           => (A.id \in run.applied /\ B.id \notin run.applied)
    /\ \A a \in DOMAIN run.accountBalances :
         run.accountBalances[a]
           = OpeningOf(run.accountsData, a) + NetEffect(AppliedRows, a)

\* The same for pairs whose created_at differ by a millisecond or more
OnlyEarlierCreatedAppliedMs ==
  run.loaded =>
    /\ \A A \in RunRows, B \in RunRows :
         (LinkedPair(A, B) /\ getTime(A.created_at) < getTime(B.created_at))
           => (A.id \in run.applied /\ B.id \notin run.applied)
    /\ \A a \in DOMAIN run.accountBalances :
         run.accountBalances[a]
           = OpeningOf(run.accountsData, a) + NetEffect(AppliedRows, a)

\* C5: after the replay there is one snapshot per (date, account), every
\* applied row has left the snapshots of its day, and the snapshot of (d, a)
\* is a's opening balance plus the net effect of the applied rows dated on or
\* before d: rows of one day overwrite the snapshot, they add no second one.
C5_SnapshotIsEndOfDay ==
  run.loaded =>
    LET daily == run.dailyAccountBalances IN
    /\ \A i \in 1..Len(daily), j \in 1..Len(daily) :
         (daily[i].date = daily[j].date /\ daily[i].accountId = daily[j].accountId)
           => i = j
    /\ \A t \in AppliedRows :
         \A a \in {t.account_id, t.destination_account_id} \cap DOMAIN accounts :
           \E i \in 1..Len(daily) : daily[i].date = t.date /\ daily[i].accountId = a
    /\ \A i \in 1..Len(daily) :
         daily[i].balance
           = OpeningOf(run.accountsData, daily[i].accountId)
               + NetEffect({t \in AppliedRows : t.date <= daily[i].date},
                           daily[i].accountId)

\* An income of 100 and then an expense of 30 on one day of one account have
\* left a single snapshot of opening + 70 for that day.
C5_Witness ==
  /\ run.loaded
  /\ \E i \in 1..Len(run.returned), j \in 1..Len(run.returned) :
       LET t == run.returned[i]
           u == run.returned[j]
       IN /\ i < j
          /\ t.type = "receita" /\ t.amount = 100
          /\ u.type = "despesa" /\ u.amount = 30
          /\ t.date = u.date /\ t.account_id = u.account_id
          /\ Len(run.returned) = 2
          /\ \E k \in 1..Len(run.dailyAccountBalances) :
               /\ run.dailyAccountBalances[k].accountId = t.account_id
               /\ run.dailyAccountBalances[k].date = t.date
               /\ run.dailyAccountBalances[k].balance
                    = OpeningOf(run.accountsData, t.account_id) + 70
          /\ Len(run.dailyAccountBalances) = 1

ReconciledTotal(accountsData, rows) ==
  SumOver(accountsData, [x \in accountsData |-> x.balance])
    + SumOver(rows, [t \in rows |->
        IF t.type = "receita" THEN t.amount
        ELSE IF t.type = "despesa" THEN 0 - t.amount ELSE 0])

\* C2: the displayed current balances of all accounts (the Dashboard total,
\* the Dashboard cards and the Accounts list) sum to the opening balances plus
\* incomes minus expenses of the rows dated on or before today; transfers
\* contribute nothing.
C2_TotalReconciles ==
  /\ dashboard.loaded =>
       /\ dashboard.totalBalance = ReconciledTotal(dashboard.accountsData, DatedUpToToday)
       /\ SumOver(DOMAIN dashboard.accounts, dashboard.accounts)
            = ReconciledTotal(dashboard.accountsData, DatedUpToToday)
  /\ accountsPage.loaded =>
       SumOver(DOMAIN accountsPage.accounts, accountsPage.accounts)
         = ReconciledTotal(accountsPage.accountsData, DatedUpToToday)

\* The second row is the mirror of the first: it is booked on the account the
\* first row credits and names the account the first row debits.
Mirrored(A, B) ==
  B.account_id = A.destination_account_id /\ B.destination_account_id = A.account_id

\* C3: every current balance of the Dashboard and of the Accounts list is the
\* final running balance of the Reports replay over the rows dated on or
\* before today; with a transfer of 200 from A (opening 1000) to B stored as
\* two linked rows, the debit row created first, A shows 800 and B its opening
\* balance plus 200.
C3_CurrentBalanceIsReplay ==
  /\ dashboard.loaded =>
       /\ \A a \in DOMAIN dashboard.accounts :
            dashboard.accounts[a]
              = Replay(dashboard.accountsData, dashboard.transactionsData).accountBalances[a]
       /\ \A A \in DatedUpToToday, B \in DatedUpToToday :
            ( /\ LinkedPair(A, B) /\ Mirrored(A, B)
              /\ getTime(A.created_at) < getTime(B.created_at)
              /\ A.amount = 200 /\ B.amount = 200
              /\ OpeningOf(dashboard.accountsData, A.account_id) = 1000 )
            => /\ dashboard.accounts[A.account_id] = 800
               /\ dashboard.accounts[B.account_id]
                    = OpeningOf(dashboard.accountsData, B.account_id) + 200
  /\ accountsPage.loaded =>
       \A a \in DOMAIN accountsPage.accounts :
         accountsPage.accounts[a]
           = Replay(accountsPage.accountsData,
                    accountsPage.transactionsData).accountBalances[a]

\* C4: of a transfer pair (A the debit row, created first, B its mirrored
\* credit row) the transaction list shows exactly one row under every account
\* filter setting: no filter, A's account, B's account.
C4_OneRowPerTransferPair ==
  txPage.loaded =>
    \A A \in transactions, B \in transactions :
      ( /\ LinkedPair(A, B) /\ Mirrored(A, B)
        /\ A.created_at < B.created_at
        /\ {A.account_id, B.account_id} \subseteq DOMAIN accounts
        /\ txPage.selectedAccount \in {"all", A.account_id, B.account_id} )
      => Cardinality({i \in 1..Len(txPage.transactions) :
                        txPage.transactions[i].row.id \in {A.id, B.id}}) = 1

\* The filtered rows the aggregations of the last run went over
FilteredRows == run.filteredTransactions

AmountsOf(rows, type) ==
  LET S == {t \in rows : t.type = type}
  IN SumOver(S, [t \in S |-> t.amount])

\* The snapshots the display filters let through
Surfaced(daily) ==
  {i \in 1..Len(daily) :
     /\ selectedAccounts # {} => daily[i].accountId \in selectedAccounts
     /\ startDate # NoDate => daily[i].date >= startDate
     /\ endDate # NoDate => daily[i].date <= endDate}

SnapshotsOf(daily) ==
  {<<daily[i].date, daily[i].accountId, daily[i].balance>> : i \in 1..Len(daily)}

\* The snapshot map is the one of the whole store, and the surfaced list is
\* that map restricted to the selected accounts and the date range.
SurfacedIsRestriction ==
  run.loaded =>
    LET daily == run.dailyAccountBalances IN
    /\ \A t \in transactions :
         \A a \in {t.account_id, t.destination_account_id} \cap DOMAIN accounts :
           \E i \in 1..Len(daily) : daily[i].date = t.date /\ daily[i].accountId = a
    /\ \A i \in 1..Len(daily) :
         daily[i].balance
           = OpeningOf(run.accountsData, daily[i].accountId)
               + NetEffect({t \in transactions : t.date <= daily[i].date},
                           daily[i].accountId)
    /\ Len(dailyBalances) = Cardinality(Surfaced(daily))
    /\ {dailyBalances[k] : k \in 1..Len(dailyBalances)}
         = {[date |-> daily[i].date, account_name |-> AccountName[daily[i].accountId],
             balance |-> daily[i].balance] : i \in Surfaced(daily)}

\* C6: a change of any Reports filter (accounts, start date, end date,
\* categories, subcategories, tags, month) over the same store leaves every
\* snapshot (date, account) with the same balance, and after every run the
\* surfaced snapshot list is exactly the unfiltered snapshot list restricted to
\* the selected accounts and the inclusive date range.
C6_FiltersNeverChangeBalances ==
  [][ /\ run.loaded =>
           SnapshotsOf(run'.dailyAccountBalances) = SnapshotsOf(run.dailyAccountBalances)
      /\ SurfacedIsRestriction' ]_vars

\* A category, subcategory or tag filter has taken a row out of the filtered
\* rows while an account filter hides a snapshot, and a snapshot that is still
\* surfaced carries the effect of the row that was filtered out.
C6_Witness ==
  /\ run.loaded
  /\ selectedCategories # {} \/ selectedSubcategories # {} \/ selectedTags # {}
  /\ selectedAccounts # {}
  /\ 0 < Len(dailyBalances) /\ Len(dailyBalances) < Len(run.dailyAccountBalances)
  /\ \E t \in RunRows \ FilteredRows :
       \E k \in 1..Len(dailyBalances) :
         /\ dailyBalances[k].account_name = AccountName[t.account_id]
         /\ dailyBalances[k].date = t.date
         /\ dailyBalances[k].balance
              = OpeningOf(run.accountsData, t.account_id)
                  + NetEffect({u \in transactions : u.date <= t.date}, t.account_id)

\* C8: the monthly report has exactly one bucket per year-month that holds an
\* income or expense row of the filtered transactions; the bucket's income is
\* the sum of the amounts of its receita rows, its expense the sum of the
\* amounts of its despesa rows, its balance income minus expense; transfer
\* rows add to neither and open no bucket.
C8_MonthlyBuckets ==
  run.loaded =>
    LET counted == {t \in FilteredRows : ~IsTransfer(t)}
        months == {MonthOf(t.date) : t \in counted}
        OfMonth(m) == {t \in FilteredRows : MonthOf(t.date) = m}
    IN /\ Len(monthlyData) = Cardinality(months)
       /\ {monthlyData[i].month : i \in 1..Len(monthlyData)} = months
       /\ \A i \in 1..Len(monthlyData) :
            LET e == monthlyData[i] IN
            /\ e.income = AmountsOf(OfMonth(e.month), "receita")
            /\ e.expense = AmountsOf(OfMonth(e.month), "despesa")
            /\ e.balance = e.income - e.expense

\* An income of 500 in one month and a transfer alone in another month: the
\* report has the single bucket of the income.
C8_Witness ==
  /\ run.loaded
  /\ \E t \in FilteredRows, u \in FilteredRows :
       /\ t.type = "receita" /\ t.amount = 500 /\ IsTransfer(u)
       /\ MonthOf(t.date) # MonthOf(u.date)
       /\ Len(monthlyData) = 1
       /\ monthlyData[1].month = MonthOf(t.date)
       /\ monthlyData[1].income = 500 /\ monthlyData[1].expense = 0

\* C9: the budgets shown are the budgets of the selected month, and the
\* balance of each is the sum of the receita amounts minus the sum of the
\* despesa amounts of the filtered rows of its category dated in the selected
\* month; transfers and rows without a category add nothing, and without such
\* a row the balance is 0.
C9_BudgetCategoryBalance ==
  run.loaded =>
    /\ {b.id : b \in budgets}
         = {b.id : b \in {x \in budgetsTable : MonthOf(x.month) = selectedMonth}}
    /\ \A b \in budgets :
         LET rows == {t \in FilteredRows :
                        /\ t.category_id = b.category_id
                        /\ MonthOf(t.date) = selectedMonth}
         IN b.balance = AmountsOf(rows, "receita") - AmountsOf(rows, "despesa")

\* An income of 500 and an expense of 300 of category c1 in the selected
\* month: the budget of c1 shows 200.
C9_Witness ==
  /\ run.loaded
  /\ \E b \in budgets, t \in FilteredRows, u \in FilteredRows :
       /\ b.category_id = "c1" /\ b.balance = 200
       /\ t.type = "receita" /\ t.category_id = "c1" /\ MonthOf(t.date) = selectedMonth
       /\ u.type = "despesa" /\ u.category_id = "c1" /\ MonthOf(u.date) = selectedMonth

\* C10: on the card of a budget whose target is not 0 the percentage is
\* balance / abs(target) * 100, without a cap, and the text shows it to the
\* nearest tenth (balance 500 against target 400: 125.0%, on track); the width
\* of the bar is between 0 and 100 for every balance and target.
C10_ProgressPercentage ==
  \A b \in budgets :
    LET card == BudgetCard(b)
        p == card.percentage
    IN /\ b.amount # 0 =>
            /\ p.den > 0
            /\ p.num * Abs(b.amount) = b.balance * 100 * p.den
            /\ 2 * Abs(card.reported * p.den - 10 * p.num) <= p.den
       /\ (b.balance = 500 /\ b.amount = 400) => (card.reported = 1250 /\ card.isOnTrack)
       /\ card.width.den > 0
       /\ 0 <= card.width.num /\ card.width.num <= 100 * card.width.den

\* The budget of target 400 with balance 500 reports 125.0% and a full bar.
C10_Witness ==
  \E b \in budgets :
    /\ b.balance = 500 /\ b.amount = 400
    /\ BudgetCard(b).reported = 1250 /\ BudgetCard(b).isOnTrack
    /\ BudgetCard(b).width = [num |-> 100, den |-> 1]

\* The sum of a field over the buckets of the monthly report
MonthlyTotal(field) ==
  LET I == 1..Len(monthlyData)
  IN SumOver(I, [i \in I |-> monthlyData[i][field]])

\* The rows of the store that carry one of the selected categories
InSelectedCategories == {t \in transactions : t.category_id \in CategoryIds \cap selectedCategories}

\* C11: with a non-empty category filter no row without a category is among
\* the filtered rows, and the income and expense totals of the monthly report
\* are sums over rows of the selected categories only (they are exactly those
\* sums when no other filter is set): an uncategorised expense of 300 is in no
\* total of a report filtered by category.
C11_UncategorisedNotInFilteredTotals ==
  (run.loaded /\ selectedCategories # {}) =>
    /\ \A t \in FilteredRows : t.category_id # NULL /\ t.category_id \in selectedCategories
    /\ MonthlyTotal("income") = AmountsOf(FilteredRows, "receita")
    /\ MonthlyTotal("expense") = AmountsOf(FilteredRows, "despesa")
    /\ MonthlyTotal("income") <= AmountsOf(InSelectedCategories, "receita")
    /\ MonthlyTotal("expense") <= AmountsOf(InSelectedCategories, "despesa")
    /\ ( /\ selectedAccounts = {} /\ selectedSubcategories = {} /\ selectedTags = {}
         /\ startDate = NoDate /\ endDate = NoDate )
       => FilteredRows = InSelectedCategories

\* The report is filtered by categories that include Groceries; the store has
\* an uncategorised expense of 300 in the month of an income of 500 of a
\* selected category: the bucket shows income 500 and expense 0.
C11_Witness ==
  /\ run.loaded /\ "c2" \in selectedCategories
  /\ \E t \in transactions, u \in transactions :
       /\ t.type = "despesa" /\ t.amount = 300 /\ t.category_id = NULL
       /\ u.type = "receita" /\ u.category_id \in selectedCategories
       /\ MonthOf(t.date) = MonthOf(u.date)
       /\ Len(monthlyData) = 1
       /\ monthlyData[1].income = 500 /\ monthlyData[1].expense = 0

\* C12: after every creation, edit, deletion and import each stored row has
\* type transferencia exactly when its destination_account_id is set, and a
\* submit the table refuses leaves the stored rows as they were; an import
\* stores none of the sheet rows the table refuses.
C12_TransferIffDestination ==
  [][ /\ \A t \in transactions' :
           (t.type = "transferencia") <=> (t.destination_account_id # NULL)
      /\ toast'.title = "Erro ao salvar transação" => transactions' = transactions
      /\ \A t \in transactions' \ transactions :
           t.type # "transferencia" \/ t.id \in {u.id : u \in transactions} ]_vars

\* The edit of a stored transfer into an expense was refused for
\* check_transfer_destination, and the row is still a transfer.
C12_Witness ==
  /\ toast.title = "Erro ao salvar transação"
  /\ "check_transfer_destination" \in toast.description
  /\ \E t \in transactions : t.type = "transferencia" /\ t.destination_account_id # NULL

\* C13: after every creation, edit and import every stored row has
\* amount >= 0.
C13_AmountsNonNegative == \A t \in transactions : t.amount >= 0

\* C14: every deletion of an account succeeds, the account is gone, and
\* afterwards no stored row names a missing account, neither as account_id
\* nor as destination_account_id.
C14_AccountDeleteCascades ==
  [][ toast'.title \in {"Conta excluída com sucesso!", "Erro ao excluir conta"} =>
        /\ toast'.title = "Conta excluída com sucesso!"
        /\ Cardinality(DOMAIN accounts') = Cardinality(DOMAIN accounts) - 1
        /\ \A t \in transactions' :
             /\ t.account_id \in DOMAIN accounts'
             /\ t.destination_account_id \in DOMAIN accounts' \cup {NULL} ]_vars

\* C15: the replay walks the rows in ascending date order and, among rows of
\* one date, in ascending created_at order, whatever order the store returned
\* them in.
C15_ProcessedByDateThenCreatedAt ==
  run.loaded =>
    LET s == run.sortedAllTransactions
    IN \A i, j \in 1..Len(s) :
         i < j =>
           \/ s[i].date < s[j].date
           \/ s[i].date = s[j].date /\ s[i].created_at <= s[j].created_at

\* C16: a run of Reports.fetchData in which the fetch of an entity set failed
\* shows the error and computes nothing: the monthly report, the snapshots and
\* the budgets stay as they were.
C16_FailedFetchAborts ==
  [][ (run' # run /\ run'.failed # {}) =>
        /\ toast'.title = "Erro ao carregar dados"
        /\ UNCHANGED <<monthlyData, dailyBalances, budgets>> ]_vars

\* The transfer row names no pair, or names a row that was not returned
Unpaired(t) ==
  /\ IsTransfer(t)
  /\ \/ t.transfer_pair_id = NULL
     \/ \A u \in RunRows : u.id # t.transfer_pair_id

\* C17: a transfer row whose transfer_pair_id is null or names an absent row
\* does not stop the replay: the row is applied as an unpaired transfer, once
\* (-amount on account_id, +amount on destination_account_id), and the rows
\* that are no transfers are applied as usual.
C17_OrphanedTransferApplied ==
  run.loaded =>
    /\ \A t \in RunRows : Unpaired(t) => t.id \in run.applied
    /\ \A t \in RunRows : ~IsTransfer(t) => t.id \in run.applied
    /\ \A a \in DOMAIN run.accountBalances :
         run.accountBalances[a]
           = OpeningOf(run.accountsData, a) + NetEffect(AppliedRows, a)

\* C18: a budget is on track exactly when its balance is at least its target,
\* for a positive target and for a negative one, and its card carries the
\* shortfall message exactly when it is not on track.
C18_OnTrackIffBalanceAtLeastTarget ==
  \A b \in budgets :
    LET card == BudgetCard(b)
    IN /\ card.isOnTrack <=> (b.balance >= b.amount)
       /\ (card.message # NoMessage) <=> ~(b.balance >= b.amount)
       /\ card.message # NoMessage =>
            card.message.value = b.amount - b.balance /\ card.message.value > 0

\* One category balance is short of a savings goal and within a deficit
\* ceiling: the card of the first shows the message, the card of the second
\* does not.
C18_Witness ==
  \E b \in budgets, c \in budgets :
    /\ b.amount > 0 /\ c.amount < 0
    /\ b.balance = c.balance /\ b.balance # 0
    /\ ~BudgetCard(b).isOnTrack /\ BudgetCard(b).message # NoMessage
    /\ BudgetCard(c).isOnTrack /\ BudgetCard(c).message = NoMessage

\* The income of the selected month on the page, 0 when it has no entry
SelectedMonthIncome ==
  IF HasMonth(monthlyData, selectedMonth)
  THEN FindMonth(monthlyData, selectedMonth).income ELSE 0

\* C19: a budget whose target is 0 reports 0 percent for every balance and
\* divides by nothing that is 0; the savings rate of a month whose income is 0
\* is 0.
C19_ZeroTargetZeroIncome ==
  /\ \A b \in budgets :
       b.amount = 0 =>
         /\ Percentage(b.balance, b.amount).den # 0
         /\ Percentage(b.balance, b.amount).num = 0
         /\ BudgetCard(b).reported = 0
  /\ SelectedMonthIncome = 0 =>
       /\ SavingsRate(monthlyData, selectedMonth).den # 0
       /\ SavingsRate(monthlyData, selectedMonth).num = 0
       /\ ToFixed1(SavingsRate(monthlyData, selectedMonth)) = 0

\* The page shows a budget of target 0 whose category balance is not 0, in a
\* month that has expenses and no income.
C19_Witness ==
  /\ \E b \in budgets : b.amount = 0 /\ b.balance # 0
  /\ HasMonth(monthlyData, selectedMonth)
  /\ FindMonth(monthlyData, selectedMonth).income = 0
  /\ FindMonth(monthlyData, selectedMonth).expense > 0

\* The stored rows that are not dated after today
NotAfterToday == {t \in transactions : ~(t.date > today)}

\* C20: rows dated after today have no effect on the current balances of the
\* Dashboard and of the Accounts list: while only such rows are added or
\* removed, every refresh shows the balances, and the total, it showed before.
C20_FutureRowsLeaveBalances ==
  [][ (NotAfterToday' = NotAfterToday /\ accounts' = accounts /\ today' = today) =>
        /\ (dashboard.loaded /\ dashboard'.loaded) =>
              /\ dashboard'.accounts = dashboard.accounts
              /\ dashboard'.totalBalance = dashboard.totalBalance
        /\ (accountsPage.loaded /\ accountsPage'.loaded) =>
              accountsPage'.accounts = accountsPage.accounts ]_vars

\* Both views are loaded over a store that holds a row dated on or before
\* today, which they read, and a row dated after today that was created in
\* the form.
C20_Witness ==
  /\ dashboard.loaded /\ accountsPage.loaded
  /\ Len(dashboard.transactionsData) = 1 /\ Len(accountsPage.transactionsData) = 1
  /\ dashboard.accounts # [a \in AccountIds |-> accounts[a]]
  /\ \E t \in transactions : t.date > today /\ t.created_at = MaxCreatedAt /\ t.amount = 100
  /\ toast.title = "Transação criada"

\* The stored rows linked to at least one of the tags
TaggedWith(tags) ==
  {t \in transactions : \E g \in tags : <<t.id, g>> \in transaction_tags}

\* C21: with a tag selection the rows the tag filter keeps, in the Reports
\* aggregation and in the Transactions list, are the rows that have at least
\* one of the selected tags; with no selection the tag filter removes no row.
C21_TagFilterKeepsTagged ==
  /\ run.loaded =>
       run.filteredTransactions
         = (IF selectedTags # {} THEN TaggedWith(selectedTags) ELSE transactions)
  /\ txPage.loaded =>
       {txPage.transactions[i].row : i \in 1..Len(txPage.transactions)}
         = (IF txPage.selectedTags # {}
            THEN TaggedWith(txPage.selectedTags) ELSE transactions)

\* Both pages filter by two tags over a store where one row has one of them
\* and the other row has none.
C21_Witness ==
  /\ run.loaded /\ txPage.loaded
  /\ selectedTags = TagIds /\ txPage.selectedTags = TagIds
  /\ \E t \in transactions, u \in transactions :
       /\ Cardinality({g \in TagIds : <<t.id, g>> \in transaction_tags}) = 1
       /\ \A g \in TagIds : <<u.id, g>> \notin transaction_tags
       /\ run.filteredTransactions = {t}
       /\ Len(txPage.transactions) = 1 /\ txPage.transactions[1].row = t

\* The month, category and amount of a budget row
BudgetKey(b) ==
  [id |-> b.id, category_id |-> b.category_id, amount |-> b.amount, month |-> b.month]

\* C22: a budget created or updated through the budget form is stored with
\* month equal to the first day of the year-month chosen in the form, and the
\* budgets listed for the selected month are the stored budgets whose month is
\* the first day of the selected month.
C22_BudgetMonthIsFirstDay ==
  [][ /\ toast'.title \in {"Orçamento criado", "Orçamento atualizado"} =>
          \A b \in budgetsTable' \ budgetsTable :
            /\ forms.budget.open
            /\ b.month = forms.budget.formData.month * DaysPerMonth + 1
            /\ (b.month - 1) % DaysPerMonth = 0
      /\ run'.loaded =>
          {BudgetKey(b) : b \in budgets'}
            = {b \in budgetsTable' : b.month = selectedMonth' * DaysPerMonth + 1} ]_vars

\* A budget was saved for a month other than the selected one: it is stored on
\* the first day of its month and the list of the selected month leaves it out.
C22_Witness ==
  /\ toast.title \in {"Orçamento criado", "Orçamento atualizado"}
  /\ run.loaded
  /\ \E b \in budgetsTable :
       /\ b.month # MonthStart(selectedMonth) /\ b.amount = 400
       /\ \A c \in budgets : c.id # b.id
  /\ budgets # {}

\* C23: an account opened for editing on the Accounts page and saved with the
\* balance field as it was prefilled keeps its stored opening balance, and the
\* current balance shown for it after the save is the one shown before.
C23_UnchangedEditKeepsBalance ==
  [][ \A id \in DOMAIN accountsPage.accounts \cap DOMAIN accounts :
        ( /\ forms.account.dialogOpen /\ forms.account.editingAccount = id
          /\ forms.account.formData.balance = ToString(accountsPage.accounts[id])
          /\ ~forms'.account.dialogOpen
          /\ toast'.title = "Conta atualizada com sucesso!" )
        => /\ accounts'[id] = accounts[id]
           /\ accountsPage'.accounts[id] = accountsPage.accounts[id] ]_vars

\* Every transfer row of the store that names a pair is one of two rows linked
\* to each other whose created_at differ under Differ
PairsLinked(Differ(_, _)) ==
  \A t \in transactions :
    (IsTransfer(t) /\ t.transfer_pair_id # NULL) =>
      \E u \in transactions :
        /\ u.id = t.transfer_pair_id /\ LinkedPair(t, u) /\ Differ(t, u)

\* Two runs over the same store give the same balances and the same snapshots
SameResult ==
  (run.loaded /\ run'.loaded /\ run'.accountsData = run.accountsData) =>
    /\ run'.accountBalances = run.accountBalances
    /\ Range(run'.dailyAccountBalances) = Range(run.dailyAccountBalances)

\* C24: over a store in which the two rows of every transfer pair are linked
\* to each other and have different created_at, the running balances and the
\* snapshot map of the Reports replay are the same for every order in which
\* the store returns the rows.
C24_ReplayOrderIndependent ==
  [][ LET Differ(t, u) == t.created_at # u.created_at
      IN PairsLinked(Differ) => SameResult ]_vars

\* The same for pairs whose created_at differ by a millisecond or more
ReplayOrderIndependentMs ==
  [][ LET Differ(t, u) == getTime(t.created_at) # getTime(u.created_at)
      IN PairsLinked(Differ) => SameResult ]_vars

\* C25: of every transfer pair whose two rows are returned and linked to each
\* other the Reports replay applies exactly one row, never both and never
\* neither, also when the rows have equal created_at or different dates, and
\* the balances are the opening balances plus the effects of the applied rows.
C25_ExactlyOneOfPairApplied ==
  run.loaded =>
    /\ \A A \in RunRows, B \in RunRows :
         LinkedPair(A, B) => ((A.id \in run.applied) # (B.id \in run.applied))
    /\ \A a \in DOMAIN run.accountBalances :
         run.accountBalances[a]
           = OpeningOf(run.accountsData, a) + NetEffect(AppliedRows, a)

\* The replay has run over a linked pair of equal created_at and different
\* dates: the row dated first is applied, the other is not.
C25_Witness ==
  /\ run.loaded
  /\ \E A \in RunRows, B \in RunRows :
       /\ LinkedPair(A, B) /\ A.date < B.date /\ A.created_at = B.created_at
       /\ A.id \in run.applied /\ B.id \notin run.applied

\* C26: a run of the import processes every row of the sheet on its own: a
\* row that fails is counted as an error and stores nothing, the rows after it
\* are processed all the same; successCount + errorCount is the number of
\* rows, the error list has errorCount entries, onImportComplete is called
\* exactly when successCount > 0, and importing is false when the run ends.
C26_ImportCountsEveryRow ==
  [][ forms.import.importing =>
        LET counted == forms'.import.counted
        IN /\ ~forms'.import.importing
           /\ counted.successCount + counted.errorCount = counted.rows
           /\ Len(counted.errors) = counted.errorCount
           /\ forms'.import.onImportComplete <=> counted.successCount > 0
           /\ transactions \subseteq transactions'
           /\ Cardinality(transactions') - Cardinality(transactions)
                = counted.successCount ]_vars

\* A sheet of two rows was imported of which one was refused and one stored.
C26_Witness ==
  /\ forms.import.counted.rows = 2
  /\ forms.import.counted.errorCount = 1 /\ forms.import.counted.successCount = 1
  /\ forms.import.onImportComplete /\ ~forms.import.open /\ ~forms.import.importing
  /\ toast.title = "Erros na importação"

Transfers(rows) == {t \in rows : IsTransfer(t)}

C29_ClosedDialogIsReset ==
  [][ /\ ~forms'.tx.open =>
           forms'.tx.editingId = NULL /\ forms'.tx.formData = TxFormData(today')
      /\ (~forms.tx.open /\ forms'.tx.open /\ forms'.tx.formData = forms.tx.formData) =>
           forms'.tx.editingId = NULL
      /\ (forms.tx.open /\ forms.tx.editingId = NULL /\ transactions' # transactions) =>
           /\ transactions \subseteq transactions'
           /\ Cardinality(transactions') = Cardinality(transactions) + 1
           /\ toast'.title = "Transação criada" ]_vars

\* A row was created through the dialog opened with the button, next to the
\* row there was, which is as it was.
C29_Witness ==
  /\ ~forms.tx.open /\ toast.title = "Transação criada"
  /\ Cardinality(transactions) = 2
  /\ \E t \in transactions : t.id = "t1" /\ t.amount = 30

\* C30: in the transaction form the selected subcategory is empty or a
\* subcategory of the selected category: a change of the category clears it,
\* and only subcategories of the selected category can be chosen.
C30_SubcategoryOfCategory ==
  \/ forms.tx.formData.subcategory_id = Empty
  \/ /\ forms.tx.formData.subcategory_id \in SubcategoryIds
     /\ SubcategoryCategory[forms.tx.formData.subcategory_id] = forms.tx.formData.category_id

\* A row of category c1 and subcategory s1 is being edited and the category
\* was changed to c2: the subcategory of the form is empty.
C30_Witness ==
  /\ forms.tx.open /\ forms.tx.editingId = "t1"
  /\ \E t \in transactions : t.id = "t1" /\ t.subcategory_id = "s1"
  /\ forms.tx.formData.category_id = "c2" /\ forms.tx.formData.subcategory_id = Empty

====
